---- MODULE Spec2Model ----
(***************************************************************************)
(* Movie catalog: the movies table, the seed step, the query service       *)
(* (MovieService) and the API handlers of routers/movies.py,               *)
(* routers/genres.py and main.py.                                          *)
(*                                                                         *)
(* Conventions of the model                                                *)
(*   - a nullable column is a set with at most one element: {} is NULL;    *)
(*   - a string that the code inspects character by character (title,      *)
(*     search term) is a sequence of one-character strings;                *)
(*   - a rating is held in tenths (9.0 is 90), so that the float           *)
(*     comparisons of the code are integer comparisons;                    *)
(*   - the movies table is a sequence of rows in rowid order, and a query  *)
(*     result is a sequence (a Python list).                               *)
(***************************************************************************)
EXTENDS Integers, Sequences, FiniteSets, TLC

VARIABLES
    movies,       \* rows of the movies table, in rowid order
    tableExists,  \* the movies table has been created (create_all)
    started,      \* the API service has run its startup event
    seedLog,      \* one entry per completed seed_database run (its printed outcome)
    request,      \* the last API request handled
    fault,        \* whether the store raised while that request was handled
    response,     \* the response to that request
    call,         \* the last direct call of a MovieService method
    result,       \* what that call returned
    reqPc,        \* per in-flight API request: how far its processing has got
    reqSession,   \* per in-flight API request: the store session it was given
    openSessions, \* the store sessions that are open
    seederPc,     \* per concurrent seeder: how far seed_database has got
    seederCount,  \* per concurrent seeder: the row count it read (existing_movies)
    clientCall,   \* the last call of a client method by the presentation layer
    clientResult, \* what that call returned
    clientMessage,\* the messages the client signalled during that call
    sessionPage,  \* st.session_state.page: {} while the key is not set
    view,         \* the last run of main or of a page function, and what it showed
    formatCall,   \* the last call of format_movie_data: argument, result, argument afterwards
    initPc,       \* how far the init_db.py run that may fail has got
    pending,      \* the rows added to that run's session and not committed
    initSession,  \* that run's session: "none", "open" or "closed"
    exitStatus    \* the exit status of that run: {} while it has not ended

\* the store sessions of the requests in flight
sessionVars == <<reqPc, reqSession, openSessions>>

\* the concurrent seeders
seederVars == <<seederPc, seederCount>>

\* the client as the presentation layer sees it
clientVars == <<clientCall, clientResult, clientMessage>>

\* the pages of the presentation layer
uiVars == <<sessionPage, view>>

\* the init_db.py run in which the store may fail
initVars == <<initPc, pending, initSession, exitStatus>>

vars == <<movies, tableExists, started, seedLog, request, fault, response, call, result,
          sessionVars, seederVars, clientVars, uiVars, formatCall, initVars>>

-----------------------------------------------------------------------------
(* Bounds of the model *)

\* largest number of rows of a store that exists before the program runs
MaxRows == 3

\* number of seed_database runs followed
MaxSeedRuns == 2

\* largest movie id asked for, besides AbsentId
MaxReqId == 10

\* number of API requests whose sessions are followed while they overlap
MaxRequests == 2

\* number of seed_database runs that overlap
MaxSeeders == 2

-----------------------------------------------------------------------------
(* Strings as character sequences *)

UpperChars ==
    <<"A","B","C","D","E","F","G","H","I","J","K","L","M",
      "N","O","P","Q","R","S","T","U","V","W","X","Y","Z">>

LowerChars ==
    <<"a","b","c","d","e","f","g","h","i","j","k","l","m",
      "n","o","p","q","r","s","t","u","v","w","x","y","z">>

\* SQL lower() on one character: ASCII letters only
LowerChar(c) ==
    IF \E i \in 1..Len(UpperChars) : UpperChars[i] = c
    THEN LowerChars[CHOOSE i \in 1..Len(UpperChars) : UpperChars[i] = c]
    ELSE c

\* SQL lower() on a string
Lower(s) ==
    [i \in 1..Len(s) |-> LowerChar(s[i])]

\* SQL  s LIKE p : in the pattern, % matches any run of characters and _ any
\* one character; no escape character is in force
RECURSIVE Like(_, _)
Like(s, p) ==
    IF p = <<>> THEN s = <<>>
    ELSE IF Head(p) = "%"
         THEN Like(s, Tail(p)) \/ (s # <<>> /\ Like(Tail(s), p))
         ELSE /\ s # <<>>
              /\ (Head(p) = "_" \/ Head(p) = Head(s))
              /\ Like(Tail(s), Tail(p))

\* Column.ilike(pattern) as SQLAlchemy renders it: lower(col) LIKE lower(pattern)
ILike(s, p) ==
    Like(Lower(s), Lower(p))

-----------------------------------------------------------------------------
(* The sample data of the seed step: SAMPLE_MOVIES, without the display-only *)
(* columns director, cast and plot, which no query reads                     *)

SAMPLE_MOVIES ==
    << [title |-> <<"T", "h", "e", " ", "D", "a", "r", "k", " ", "K", "n", "i", "g", "h", "t">>,
        year |-> {2008}, genre |-> {"Action"}, rating |-> {90}],
       [title |-> <<"M", "a", "d", " ", "M", "a", "x", ":", " ", "F", "u", "r", "y", " ", "R", "o", "a", "d">>,
        year |-> {2015}, genre |-> {"Action"}, rating |-> {81}],
       [title |-> <<"J", "o", "h", "n", " ", "W", "i", "c", "k">>,
        year |-> {2014}, genre |-> {"Action"}, rating |-> {74}],
       [title |-> <<"M", "i", "s", "s", "i", "o", "n", ":", " ", "I", "m", "p", "o", "s", "s", "i", "b", "l", "e", " ", "-", " ", "F", "a", "l", "l", "o", "u", "t">>,
        year |-> {2018}, genre |-> {"Action"}, rating |-> {77}],
       [title |-> <<"T", "h", "e", " ", "G", "r", "a", "n", "d", " ", "B", "u", "d", "a", "p", "e", "s", "t", " ", "H", "o", "t", "e", "l">>,
        year |-> {2014}, genre |-> {"Comedy"}, rating |-> {81}],
       [title |-> <<"S", "u", "p", "e", "r", "b", "a", "d">>,
        year |-> {2007}, genre |-> {"Comedy"}, rating |-> {76}],
       [title |-> <<"B", "r", "i", "d", "e", "s", "m", "a", "i", "d", "s">>,
        year |-> {2011}, genre |-> {"Comedy"}, rating |-> {68}],
       [title |-> <<"T", "h", "e", " ", "H", "a", "n", "g", "o", "v", "e", "r">>,
        year |-> {2009}, genre |-> {"Comedy"}, rating |-> {77}],
       [title |-> <<"T", "h", "e", " ", "S", "h", "a", "w", "s", "h", "a", "n", "k", " ", "R", "e", "d", "e", "m", "p", "t", "i", "o", "n">>,
        year |-> {1994}, genre |-> {"Drama"}, rating |-> {93}],
       [title |-> <<"F", "o", "r", "r", "e", "s", "t", " ", "G", "u", "m", "p">>,
        year |-> {1994}, genre |-> {"Drama"}, rating |-> {88}],
       [title |-> <<"T", "h", "e", " ", "G", "r", "e", "e", "n", " ", "M", "i", "l", "e">>,
        year |-> {1999}, genre |-> {"Drama"}, rating |-> {86}],
       [title |-> <<"S", "c", "h", "i", "n", "d", "l", "e", "r", "'", "s", " ", "L", "i", "s", "t">>,
        year |-> {1993}, genre |-> {"Drama"}, rating |-> {89}],
       [title |-> <<"T", "h", "e", " ", "S", "h", "i", "n", "i", "n", "g">>,
        year |-> {1980}, genre |-> {"Horror"}, rating |-> {84}],
       [title |-> <<"A", " ", "Q", "u", "i", "e", "t", " ", "P", "l", "a", "c", "e">>,
        year |-> {2018}, genre |-> {"Horror"}, rating |-> {75}],
       [title |-> <<"G", "e", "t", " ", "O", "u", "t">>,
        year |-> {2017}, genre |-> {"Horror"}, rating |-> {77}],
       [title |-> <<"H", "e", "r", "e", "d", "i", "t", "a", "r", "y">>,
        year |-> {2018}, genre |-> {"Horror"}, rating |-> {73}],
       [title |-> <<"I", "n", "c", "e", "p", "t", "i", "o", "n">>,
        year |-> {2010}, genre |-> {"Sci-Fi"}, rating |-> {88}],
       [title |-> <<"I", "n", "t", "e", "r", "s", "t", "e", "l", "l", "a", "r">>,
        year |-> {2014}, genre |-> {"Sci-Fi"}, rating |-> {86}],
       [title |-> <<"B", "l", "a", "d", "e", " ", "R", "u", "n", "n", "e", "r", " ", "2", "0", "4", "9">>,
        year |-> {2017}, genre |-> {"Sci-Fi"}, rating |-> {80}],
       [title |-> <<"A", "r", "r", "i", "v", "a", "l">>,
        year |-> {2016}, genre |-> {"Sci-Fi"}, rating |-> {79}],
       [title |-> <<"G", "o", "n", "e", " ", "G", "i", "r", "l">>,
        year |-> {2014}, genre |-> {"Thriller"}, rating |-> {81}],
       [title |-> <<"T", "h", "e", " ", "S", "i", "l", "e", "n", "c", "e", " ", "o", "f", " ", "t", "h", "e", " ", "L", "a", "m", "b", "s">>,
        year |-> {1991}, genre |-> {"Thriller"}, rating |-> {86}],
       [title |-> <<"S", "e", "7", "e", "n">>,
        year |-> {1995}, genre |-> {"Thriller"}, rating |-> {86}],
       [title |-> <<"Z", "o", "d", "i", "a", "c">>,
        year |-> {2007}, genre |-> {"Thriller"}, rating |-> {77}] >>

-----------------------------------------------------------------------------
(* The movies table *)

\* a row of the movies table: the columns of Movie that the queries read
Movie(id, data) ==
    [id |-> id, title |-> data.title, year |-> data.year,
     genre |-> data.genre, rating |-> data.rating]

\* rows a store may hold before the program runs; every row satisfies the
\* column types of the table and the field constraints of the Movie schema
\* (title non-empty, year in 1888..2030, rating in 0..10), with the optional
\* columns both set and NULL
Catalog ==
    << [id |-> 1, title |-> <<"T","h","e"," ","D","a","r","k"," ","K","n","i","g","h","t">>,
        year |-> {2008}, genre |-> {"Action"}, rating |-> {90}],
       [id |-> 2, title |-> <<"G","o","n","e"," ","G","i","r","l">>,
        year |-> {2014}, genre |-> {"Thriller"}, rating |-> {81}],
       [id |-> 3, title |-> <<"D","A","R","K">>,
        year |-> {}, genre |-> {"action"}, rating |-> {0}],
       [id |-> 5, title |-> <<"1","0","0","%">>,
        year |-> {1994}, genre |-> {""}, rating |-> {}],
       [id |-> 6, title |-> <<"a","_","b">>,
        year |-> {2008}, genre |-> {}, rating |-> {100}],
       [id |-> 8, title |-> <<"U","p">>,
        year |-> {1888}, genre |-> {"Action"}, rating |-> {81}],
       [id |-> 9, title |-> <<"a","b">>,
        year |-> {2030}, genre |-> {"Action"}, rating |-> {75}] >>

RECURSIVE SetToSeq(_)
\* the elements of a set of integers in increasing order
SetToSeq(S) ==
    IF S = {} THEN <<>>
    ELSE LET m == CHOOSE x \in S : \A y \in S : x <= y
         IN  <<m>> \o SetToSeq(S \ {m})

\* the stores the program may find: any at most MaxRows rows of Catalog
InitialStores ==
    { [i \in 1..Cardinality(S) |-> Catalog[SetToSeq(S)[i]]] :
        S \in { T \in SUBSET (1..Len(Catalog)) : Cardinality(T) <= MaxRows } }

\* an id assignment that gives every new row the id 1
NextId_one(db) ==
    1

\* the id the store assigns to a new row (integer primary key)
NextId(db) ==
    IF db = <<>> THEN 1 ELSE db[Len(db)].id + 1

\* session.add(Movie(**movie_data)) followed by the flush at commit
Add(db, data) ==
    Append(db, Movie(NextId(db), data))

RECURSIVE AddAll(_, _)
\* the loop of seed_database over SAMPLE_MOVIES
AddAll(db, datas) ==
    IF datas = <<>> THEN db
    ELSE AddAll(Add(db, Head(datas)), Tail(datas))

\* seed_database without the check for existing rows
SeedDatabase_unguarded(db) ==
    AddAll(db, SAMPLE_MOVIES)

\* seed_database: skip when the table holds a row, else insert the samples
SeedDatabase(db) ==
    LET existing_movies == Len(db)
    IN  IF existing_movies > 0 THEN db
        ELSE AddAll(db, SAMPLE_MOVIES)

-----------------------------------------------------------------------------
(* MovieService *)

\* query(Movie).all()
GetAllMovies(db) ==
    db

\* query(Movie).filter(Movie.id == movie_id).first(): {} is None
GetMovieById(db, movie_id) ==
    LET rows == SelectSeq(db, LAMBDA m : m.id = movie_id)
    IN  IF rows = <<>> THEN {} ELSE {Head(rows)}

\* random.sample(population, k): every list of k elements taken at k
\* distinct positions of the population
RandomSample(population, k) ==
    { [i \in 1..k |-> population[f[i]]] :
        f \in { g \in [1..k -> 1..Len(population)] :
                  \A i, j \in 1..k : i # j => g[i] # g[j] } }

\* get_random_movies_by_genre drawing with replacement (random.choices)
GetRandomMoviesByGenre_choices(db, genre, limit) ==
    LET matching == SelectSeq(db, LAMBDA m : genre \in m.genre)
    IN  IF matching = <<>> THEN {<<>>}
        ELSE IF Len(matching) <= limit THEN {matching}
        ELSE { [i \in 1..limit |-> matching[f[i]]] :
                 f \in [1..limit -> 1..Len(matching)] }

\* get_random_movies_by_genre returning the first limit matching movies
\* (query.limit(limit).all(), or a generator seeded anew on every call)
GetRandomMoviesByGenre_first(db, genre, limit) ==
    LET matching == SelectSeq(db, LAMBDA m : genre \in m.genre)
    IN  IF matching = <<>> THEN {<<>>}
        ELSE IF Len(matching) <= limit THEN {matching}
        ELSE {SubSeq(matching, 1, limit)}

\* get_random_movies_by_genre: the set of lists the call may return
GetRandomMoviesByGenre(db, genre, limit) ==
    LET matching == SelectSeq(db, LAMBDA m : genre \in m.genre)
    IN  IF matching = <<>> THEN {<<>>}
        ELSE IF Len(matching) <= limit THEN {matching}
        ELSE RandomSample(matching, limit)

RECURSIVE Distinct(_)
\* SELECT DISTINCT over a one-column result: first occurrences, in order
Distinct(s) ==
    IF s = <<>> THEN <<>>
    ELSE LET rest == Distinct(SubSeq(s, 1, Len(s) - 1))
             last == s[Len(s)]
         IN  IF \E i \in 1..Len(rest) : rest[i] = last THEN rest
             ELSE Append(rest, last)

\* get_all_genres without the "if genre[0]" filter
GetAllGenres_unfiltered(db) ==
    LET genres == Distinct([i \in 1..Len(db) |-> db[i].genre])
    IN  [i \in 1..Len(genres) |->
            IF genres[i] = {} THEN "" ELSE CHOOSE x \in genres[i] : TRUE]

\* get_all_genres: distinct genre column, NULL and '' dropped (if genre[0])
GetAllGenres(db) ==
    LET genres == Distinct([i \in 1..Len(db) |-> db[i].genre])
        kept   == SelectSeq(genres, LAMBDA g : g # {} /\ g # {""})
    IN  [i \in 1..Len(kept) |-> CHOOSE x \in kept[i] : TRUE]

\* get_movies_by_year_range with an exclusive upper end (year < end_year)
GetMoviesByYearRange_exclusive(db, start_year, end_year) ==
    SelectSeq(db, LAMBDA m : \E y \in m.year : y >= start_year /\ y < end_year)

\* get_movies_by_year_range: year >= start AND year <= end (NULL is not a match)
GetMoviesByYearRange(db, start_year, end_year) ==
    SelectSeq(db, LAMBDA m : \E y \in m.year : y >= start_year /\ y <= end_year)

\* get_movies_by_rating_threshold with a strict comparison (rating > min_rating)
GetMoviesByRatingThreshold_strict(db, min_rating) ==
    SelectSeq(db, LAMBDA m : \E r \in m.rating : r > min_rating)

\* get_movies_by_rating_threshold: rating >= min_rating (NULL is not a match)
GetMoviesByRatingThreshold(db, min_rating) ==
    SelectSeq(db, LAMBDA m : \E r \in m.rating : r >= min_rating)

\* search_movies_by_title: title ILIKE '%' || search_term || '%'
SearchMoviesByTitle(db, search_term) ==
    SelectSeq(db, LAMBDA m : ILike(m.title, <<"%">> \o search_term \o <<"%">>))

-----------------------------------------------------------------------------
(* Program constants of the API layer *)

\* limit: int = Query(default=8, ge=1, le=20)
DefaultLimit == 8

MinLimit == 1

MaxLimit == 20

\* year: Optional[int] = Field(None, ge=1888, le=2030)
MinYear == 1888

MaxYear == 2030

\* rating: Optional[float] = Field(None, ge=0.0, le=10.0), in tenths
MinRating == 0

MaxRating == 100

\* title: str = Field(..., min_length=1, max_length=255)
MaxTitleLen == 255

\* number of entries of SAMPLE_MOVIES
SampleCount == 24

-----------------------------------------------------------------------------
(* Inputs *)

ReqIds ==
    (0..MaxReqId) \cup {9999999}

ReqGenres ==
    {"Action", "action", "Thriller", "Sci-Fi", "Western"}

\* the limit query parameter: {} when the request carries none
ReqLimits ==
    {{}} \cup { {n} : n \in {0, 1, 2, 3, 20, 21} }

Terms ==
    { <<"d","a","r","k">>, <<"D","A","R","K">>,
      <<"d","a","r","k"," ","k","n","i","g","h","t">>,
      <<"g","I","r","L">>, <<"z","z">>, <<"%">>, <<"_">>,
      <<"a","_","b">>, <<"0","%">> }

\* the query parameter of the search: {} when missing, <<>> when empty
ReqQueries ==
    {{}} \cup { {q} : q \in Terms \cup {<<>>} }

ReqYears ==
    {1888, 1994, 2010, 2030}

ReqRatings ==
    {-1, 0, 75, 81, 90, 100, 101}

\* arguments of direct MovieService calls
SvcGenres ==
    ReqGenres \cup {""}

SvcLimits ==
    {1, 2, 3, 4, 8, 20, 25}

SvcRatings ==
    {-5, 0, 1, 75, 81, 90, 100, 120}

-----------------------------------------------------------------------------
(* Requests and responses *)

NoRequest ==
    [op |-> "none", movie_id |-> 0, genre |-> "", limit |-> {}, query |-> {},
     start_year |-> 0, end_year |-> 0, min_rating |-> 0]

NoResponse ==
    [status |-> 0, kind |-> "none", movies |-> <<>>, total |-> {},
     genres |-> <<>>, body_status_code |-> {}]

\* http_exception_handler with the body {"error": detail} only
HttpExceptionResponse_nocode(status_code) ==
    [NoResponse EXCEPT !.status = status_code, !.kind = "error"]

\* http_exception_handler: body {"error": detail, "status_code": status_code}
HttpExceptionResponse(status_code) ==
    [NoResponse EXCEPT !.status = status_code, !.kind = "error",
                       !.body_status_code = {status_code}]

\* general_exception_handler: body {"error", "detail", "status_code": 500}
GeneralExceptionResponse ==
    [NoResponse EXCEPT !.status = 500, !.kind = "error",
                       !.body_status_code = {500}]

\* a parameter refused by its Query/Path declaration: the framework's own
\* 422 response, body {"detail": [...]}
RequestValidationResponse ==
    [NoResponse EXCEPT !.status = 422, !.kind = "validation_error"]

\* the field constraints of the Movie response schema (MovieBase)
ResponseValid(m) ==
    /\ Len(m.title) >= 1 /\ Len(m.title) <= MaxTitleLen
    /\ \A y \in m.year : y >= MinYear /\ y <= MaxYear
    /\ \A r \in m.rating : r >= MinRating /\ r <= MaxRating

\* MovieListResponse(movies=movies, total=len(movies)), serialised through
\* response_model; a row the schema refuses is an unhandled error
MovieListResponse(list) ==
    IF \A i \in 1..Len(list) : ResponseValid(list[i])
    THEN [NoResponse EXCEPT !.status = 200, !.kind = "list",
                            !.movies = list, !.total = {Len(list)}]
    ELSE GeneralExceptionResponse

\* return movie, serialised through response_model=Movie
MovieResponse(m) ==
    IF ResponseValid(m)
    THEN [NoResponse EXCEPT !.status = 200, !.kind = "movie", !.movies = <<m>>]
    ELSE GeneralExceptionResponse

\* GenreResponse(genres=genres)
GenreResponse(list) ==
    [NoResponse EXCEPT !.status = 200, !.kind = "genres", !.genres = list]

\* a plain dict returned by root and health_check
InfoResponse ==
    [NoResponse EXCEPT !.status = 200, !.kind = "info"]

-----------------------------------------------------------------------------
(* The handlers: the set of responses a request may get from store db when *)
(* the store raises (f) or not during the request                          *)

\* GET /movies/
GetAllMoviesHandler(db, f) ==
    IF f THEN {HttpExceptionResponse(500)}
    ELSE {MovieListResponse(GetAllMovies(db))}

\* GET /movies/{movie_id} without "except HTTPException: raise": the 404
\* raised in the try block is caught by "except Exception"
GetMovieByIdHandler_swallow(db, movie_id, f) ==
    IF f THEN {HttpExceptionResponse(500)}
    ELSE LET movie == GetMovieById(db, movie_id)
         IN  IF movie = {} THEN {HttpExceptionResponse(500)}
             ELSE { MovieResponse(m) : m \in movie }

\* GET /movies/{movie_id}
GetMovieByIdHandler(db, movie_id, f) ==
    IF f THEN {HttpExceptionResponse(500)}
    ELSE LET movie == GetMovieById(db, movie_id)
         IN  IF movie = {} THEN {HttpExceptionResponse(404)}
             ELSE { MovieResponse(m) : m \in movie }

\* GET /movies/genre/{genre}?limit=N without the "if not movies" check
GetMoviesByGenreHandler_nocheck(db, genre, limit_param, f) ==
    LET limit == IF limit_param = {} THEN DefaultLimit
                 ELSE CHOOSE n \in limit_param : TRUE
    IN  IF limit < MinLimit \/ limit > MaxLimit THEN {RequestValidationResponse}
        ELSE IF f THEN {HttpExceptionResponse(500)}
        ELSE { MovieListResponse(list) :
                   list \in GetRandomMoviesByGenre(db, genre, limit) }

\* GET /movies/genre/{genre}?limit=N with limit declared without le=20
GetMoviesByGenreHandler_unbounded(db, genre, limit_param, f) ==
    LET limit == IF limit_param = {} THEN DefaultLimit
                 ELSE CHOOSE n \in limit_param : TRUE
    IN  IF limit < MinLimit THEN {RequestValidationResponse}
        ELSE IF f THEN {HttpExceptionResponse(500)}
        ELSE { IF list = <<>> THEN HttpExceptionResponse(404)
               ELSE MovieListResponse(list) :
                   list \in GetRandomMoviesByGenre(db, genre, limit) }

\* GET /movies/genre/{genre}?limit=N
GetMoviesByGenreHandler(db, genre, limit_param, f) ==
    LET limit == IF limit_param = {} THEN DefaultLimit
                 ELSE CHOOSE n \in limit_param : TRUE
    IN  IF limit < MinLimit \/ limit > MaxLimit THEN {RequestValidationResponse}
        ELSE IF f THEN {HttpExceptionResponse(500)}
        ELSE { IF list = <<>> THEN HttpExceptionResponse(404)
               ELSE MovieListResponse(list) :
                   list \in GetRandomMoviesByGenre(db, genre, limit) }

\* GET /movies/search/?query=TERM answering 404 on an empty result, as the
\* genre handler does
SearchMoviesByTitleHandler_404(db, query_param, f) ==
    IF query_param = {} \/ query_param = {<<>>} THEN {RequestValidationResponse}
    ELSE IF f THEN {HttpExceptionResponse(500)}
    ELSE { IF SearchMoviesByTitle(db, q) = <<>> THEN HttpExceptionResponse(404)
           ELSE MovieListResponse(SearchMoviesByTitle(db, q)) : q \in query_param }

\* GET /movies/search/?query=TERM
SearchMoviesByTitleHandler(db, query_param, f) ==
    IF query_param = {} \/ query_param = {<<>>} THEN {RequestValidationResponse}
    ELSE IF f THEN {HttpExceptionResponse(500)}
    ELSE { MovieListResponse(SearchMoviesByTitle(db, q)) : q \in query_param }

\* GET /movies/year/{start_year}/{end_year} without "except HTTPException:
\* raise": the 422 raised in the try block is caught by "except Exception"
GetMoviesByYearRangeHandler_swallow(db, start_year, end_year, f) ==
    IF start_year > end_year THEN {HttpExceptionResponse(500)}
    ELSE IF f THEN {HttpExceptionResponse(500)}
    ELSE {MovieListResponse(GetMoviesByYearRange(db, start_year, end_year))}

\* GET /movies/year/{start_year}/{end_year}
GetMoviesByYearRangeHandler(db, start_year, end_year, f) ==
    IF start_year > end_year THEN {HttpExceptionResponse(422)}
    ELSE IF f THEN {HttpExceptionResponse(500)}
    ELSE {MovieListResponse(GetMoviesByYearRange(db, start_year, end_year))}

\* GET /movies/rating/{min_rating}
GetMoviesByRatingThresholdHandler(db, min_rating, f) ==
    IF min_rating < MinRating \/ min_rating > MaxRating
    THEN {RequestValidationResponse}
    ELSE IF f THEN {HttpExceptionResponse(500)}
    ELSE {MovieListResponse(GetMoviesByRatingThreshold(db, min_rating))}

\* GET /genres/ answering a fault of the store with an empty list
GetAllGenresHandler_empty(db, f) ==
    IF f THEN {GenreResponse(<<>>)}
    ELSE {GenreResponse(GetAllGenres(db))}

\* GET /genres/
GetAllGenresHandler(db, f) ==
    IF f THEN {HttpExceptionResponse(500)}
    ELSE {GenreResponse(GetAllGenres(db))}

-----------------------------------------------------------------------------
(* State machine *)

NoResult ==
    [found |-> {}, movies |-> <<>>, genres |-> <<>>]

\* no script run yet
NoView ==
    [fn |-> "none", outcome |-> "none", exception |-> "", rendered |-> "none",
     input |-> <<>>, list |-> <<>>, displayed |-> <<>>, messages |-> {},
     stats |-> {}, selected |-> {}, similar |-> <<>>]

\* no call of format_movie_data yet
NoFormatCall ==
    [fn |-> "none", pass |-> 0, arg |-> <<>>, result |-> <<>>, after |-> <<>>]

Init ==
    /\ tableExists \in BOOLEAN
    /\ movies \in (IF tableExists THEN InitialStores ELSE {<<>>})
    /\ started = FALSE
    /\ seedLog = <<>>
    /\ request = NoRequest
    /\ fault = FALSE
    /\ response = NoResponse
    /\ call = NoRequest
    /\ result = NoResult
    /\ reqPc = [r \in 1..MaxRequests |-> "idle"]
    /\ reqSession = [r \in 1..MaxRequests |-> 0]
    /\ openSessions = {}
    /\ seederPc = [s \in 1..MaxSeeders |-> "start"]
    /\ seederCount = [s \in 1..MaxSeeders |-> 0]
    /\ clientCall = NoRequest
    /\ clientResult = NoResult
    /\ clientMessage = {}
    /\ sessionPage = {}
    /\ view = NoView
    /\ formatCall = NoFormatCall
    /\ initPc = "start"
    /\ pending = <<>>
    /\ initSession = "none"
    /\ exitStatus = {}

\* init_db.py: create_all, then seed_database on a fresh session
InitDatabase ==
    /\ Len(seedLog) < MaxSeedRuns
    /\ tableExists' = TRUE
    /\ movies' = SeedDatabase(movies)
    /\ seedLog' = Append(seedLog, [existing |-> Len(movies),
                                   inserted |-> Len(movies') - Len(movies)])
    /\ UNCHANGED <<started, request, fault, response, call, result>>
    /\ UNCHANGED <<sessionVars, seederVars, clientVars, uiVars, formatCall, initVars>>

\* a startup_event that also seeds the store
Startup_seeding ==
    /\ ~started
    /\ started' = TRUE
    /\ tableExists' = TRUE
    /\ movies' = SeedDatabase(movies)
    /\ UNCHANGED <<seedLog, request, fault, response, call, result>>
    /\ UNCHANGED <<sessionVars, seederVars, clientVars, uiVars, formatCall, initVars>>

\* main.py startup_event: create_all
Startup ==
    /\ ~started
    /\ started' = TRUE
    /\ tableExists' = TRUE
    /\ UNCHANGED <<movies, seedLog, request, fault, response, call, result>>
    /\ UNCHANGED <<sessionVars, seederVars, clientVars, uiVars, formatCall, initVars>>

\* one request served: the store is read, never written
Serve(req, f, resp) ==
    /\ started
    /\ request' = req
    /\ fault' = f
    /\ response' = resp
    /\ UNCHANGED <<movies, tableExists, started, seedLog, call, result>>
    /\ UNCHANGED <<sessionVars, seederVars, clientVars, uiVars, formatCall, initVars>>

ReqRoot ==
    Serve([NoRequest EXCEPT !.op = "root"], FALSE, InfoResponse)

ReqHealthCheck ==
    Serve([NoRequest EXCEPT !.op = "health_check"], FALSE, InfoResponse)

ReqGetAllMovies ==
    \E f \in BOOLEAN :
      \E resp \in GetAllMoviesHandler(movies, f) :
        Serve([NoRequest EXCEPT !.op = "get_all_movies"], f, resp)

ReqGetMovieById ==
    \E movie_id \in ReqIds, f \in BOOLEAN :
      \E resp \in GetMovieByIdHandler(movies, movie_id, f) :
        Serve([NoRequest EXCEPT !.op = "get_movie_by_id", !.movie_id = movie_id],
              f, resp)

ReqGetMoviesByGenre ==
    \E genre \in ReqGenres, limit \in ReqLimits, f \in BOOLEAN :
      \E resp \in GetMoviesByGenreHandler(movies, genre, limit, f) :
        Serve([NoRequest EXCEPT !.op = "get_movies_by_genre", !.genre = genre,
                                !.limit = limit],
              f, resp)

ReqSearchMoviesByTitle ==
    \E query \in ReqQueries, f \in BOOLEAN :
      \E resp \in SearchMoviesByTitleHandler(movies, query, f) :
        Serve([NoRequest EXCEPT !.op = "search_movies_by_title", !.query = query],
              f, resp)

ReqGetMoviesByYearRange ==
    \E start_year \in ReqYears, end_year \in ReqYears, f \in BOOLEAN :
      \E resp \in GetMoviesByYearRangeHandler(movies, start_year, end_year, f) :
        Serve([NoRequest EXCEPT !.op = "get_movies_by_year_range",
                                !.start_year = start_year, !.end_year = end_year],
              f, resp)

ReqGetMoviesByRatingThreshold ==
    \E min_rating \in ReqRatings, f \in BOOLEAN :
      \E resp \in GetMoviesByRatingThresholdHandler(movies, min_rating, f) :
        Serve([NoRequest EXCEPT !.op = "get_movies_by_rating_threshold",
                                !.min_rating = min_rating],
              f, resp)

ReqGetAllGenres ==
    \E f \in BOOLEAN :
      \E resp \in GetAllGenresHandler(movies, f) :
        Serve([NoRequest EXCEPT !.op = "get_all_genres"], f, resp)

Next ==
    \/ InitDatabase
    \/ Startup
    \/ ReqRoot
    \/ ReqHealthCheck
    \/ ReqGetAllMovies
    \/ ReqGetMovieById
    \/ ReqGetMoviesByGenre
    \/ ReqSearchMoviesByTitle
    \/ ReqGetMoviesByYearRange
    \/ ReqGetMoviesByRatingThreshold
    \/ ReqGetAllGenres

Spec ==
    Init /\ [][Next]_vars

-----------------------------------------------------------------------------
(* Direct calls of the MovieService methods on the current store *)

Called(c, r) ==
    /\ tableExists
    /\ call' = c
    /\ result' = r
    /\ UNCHANGED <<movies, tableExists, started, seedLog, request, fault, response>>
    /\ UNCHANGED <<sessionVars, seederVars, clientVars, uiVars, formatCall, initVars>>

CallGetMovieById ==
    \E movie_id \in ReqIds :
      Called([NoRequest EXCEPT !.op = "get_movie_by_id", !.movie_id = movie_id],
             [NoResult EXCEPT !.found = GetMovieById(movies, movie_id)])

CallGetRandomMoviesByGenre ==
    \E genre \in SvcGenres, limit \in SvcLimits :
      \E list \in GetRandomMoviesByGenre(movies, genre, limit) :
        Called([NoRequest EXCEPT !.op = "get_random_movies_by_genre",
                                 !.genre = genre, !.limit = {limit}],
               [NoResult EXCEPT !.movies = list])

CallGetAllGenres ==
    Called([NoRequest EXCEPT !.op = "get_all_genres"],
           [NoResult EXCEPT !.genres = GetAllGenres(movies)])

CallGetMoviesByYearRange ==
    \E start_year \in ReqYears, end_year \in ReqYears :
      /\ start_year <= end_year
      /\ Called([NoRequest EXCEPT !.op = "get_movies_by_year_range",
                                  !.start_year = start_year, !.end_year = end_year],
                [NoResult EXCEPT !.movies =
                     GetMoviesByYearRange(movies, start_year, end_year)])

CallGetMoviesByRatingThreshold ==
    \E min_rating \in SvcRatings :
      Called([NoRequest EXCEPT !.op = "get_movies_by_rating_threshold",
                               !.min_rating = min_rating],
             [NoResult EXCEPT !.movies =
                  GetMoviesByRatingThreshold(movies, min_rating)])

CallSearchMoviesByTitle ==
    \E term \in Terms :
      Called([NoRequest EXCEPT !.op = "search_movies_by_title", !.query = {term}],
             [NoResult EXCEPT !.movies = SearchMoviesByTitle(movies, term)])

NextService ==
    \/ InitDatabase
    \/ CallGetMovieById
    \/ CallGetRandomMoviesByGenre
    \/ CallGetAllGenres
    \/ CallGetMoviesByYearRange
    \/ CallGetMoviesByRatingThreshold
    \/ CallSearchMoviesByTitle

SpecService ==
    Init /\ [][NextService]_vars

-----------------------------------------------------------------------------
(* The client of the presentation layer: components/api_client.py.  The     *)
(* pages import its one instance, movie_api; every method answers from the   *)
(* instance's own sample_movies list.                                        *)

\* self.sample_movies, with the fields the model's rows carry
MockSampleMovies ==
    << [id |-> 1, title |-> <<"T","h","e"," ","D","a","r","k"," ","K","n","i","g","h","t">>,
        year |-> {2008}, genre |-> {"Action"}, rating |-> {90}],
       [id |-> 2, title |-> <<"I","n","c","e","p","t","i","o","n">>,
        year |-> {2010}, genre |-> {"Sci-Fi"}, rating |-> {88}],
       [id |-> 3, title |-> <<"T","h","e"," ","S","h","a","w","s","h","a","n","k"," ",
                               "R","e","d","e","m","p","t","i","o","n">>,
        year |-> {1994}, genre |-> {"Drama"}, rating |-> {93}],
       [id |-> 4, title |-> <<"T","h","e"," ","G","r","a","n","d"," ","B","u","d","a","p","e","s","t"," ",
                               "H","o","t","e","l">>,
        year |-> {2014}, genre |-> {"Comedy"}, rating |-> {81}],
       [id |-> 5, title |-> <<"T","h","e"," ","S","h","i","n","i","n","g">>,
        year |-> {1980}, genre |-> {"Horror"}, rating |-> {84}],
       [id |-> 6, title |-> <<"G","o","n","e"," ","G","i","r","l">>,
        year |-> {2014}, genre |-> {"Thriller"}, rating |-> {81}] >>

\* str.lower() on a genre name
GenreLower(g) ==
    CASE g = "Action"   -> "action"
      [] g = "Comedy"   -> "comedy"
      [] g = "Drama"    -> "drama"
      [] g = "Horror"   -> "horror"
      [] g = "Sci-Fi"   -> "sci-fi"
      [] g = "Thriller" -> "thriller"
      [] g = "Western"  -> "western"
      [] OTHER          -> g

\* the values a list holds
Elems0(list) ==
    { list[i] : i \in DOMAIN list }

\* Python  sub in s  on strings
InStr(sub, s) ==
    \E k \in 0..(Len(s) - Len(sub)) : SubSeq(s, k + 1, k + Len(sub)) = sub

\* sorted() on the genre names of the sample list
SortedGenres(names) ==
    SelectSeq(<<"Action", "Comedy", "Drama", "Horror", "Sci-Fi", "Thriller">>,
              LAMBDA g : g \in names)

MockGetAllMovies ==
    MockSampleMovies

\* the first sample movie with that id, or None ({})
MockGetMovieById(movie_id) ==
    LET hits == SelectSeq(MockSampleMovies, LAMBDA m : m.id = movie_id)
    IN  IF hits = <<>> THEN {} ELSE {hits[1]}

\* the set of lists the call may return
MockGetMoviesByGenre(genre, limit) ==
    LET genre_movies == SelectSeq(MockSampleMovies,
                           LAMBDA m : \E g \in m.genre : GenreLower(g) = GenreLower(genre))
    IN  IF Len(genre_movies) <= limit THEN {genre_movies}
        ELSE RandomSample(genre_movies, limit)

MockGetAllGenres ==
    SortedGenres(UNION { MockSampleMovies[i].genre : i \in DOMAIN MockSampleMovies })

MockSearchMoviesByTitle(search_term) ==
    SelectSeq(MockSampleMovies, LAMBDA m : InStr(Lower(search_term), Lower(m.title)))

\* "movie['year'] and ..." : a year of None or 0 is no match
MockGetMoviesByYearRange(start_year, end_year) ==
    SelectSeq(MockSampleMovies,
              LAMBDA m : \E y \in m.year : y # 0 /\ start_year <= y /\ y <= end_year)

\* "movie['rating'] and ..." : a rating of None or 0 is no match
MockGetMoviesByRatingThreshold(min_rating) ==
    SelectSeq(MockSampleMovies,
              LAMBDA m : \E r \in m.rating : r # 0 /\ r >= min_rating)

\* one call of a client method by a page: no request is sent to the API, no
\* method raises and none signals a message
ClientCalled(c, r) ==
    /\ clientCall' = c
    /\ clientResult' = r
    /\ clientMessage' = {}
    /\ UNCHANGED <<movies, tableExists, started, seedLog, request, fault, response,
                   call, result>>
    /\ UNCHANGED <<sessionVars, seederVars, uiVars, formatCall, initVars>>

ClientGetAllMovies ==
    ClientCalled([NoRequest EXCEPT !.op = "get_all_movies"],
                 [NoResult EXCEPT !.movies = MockGetAllMovies])

ClientGetMovieById ==
    \E movie_id \in ReqIds :
      ClientCalled([NoRequest EXCEPT !.op = "get_movie_by_id", !.movie_id = movie_id],
                   [NoResult EXCEPT !.found = MockGetMovieById(movie_id)])

ClientGetMoviesByGenre ==
    \E genre \in SvcGenres, limit \in SvcLimits :
      \E list \in MockGetMoviesByGenre(genre, limit) :
        ClientCalled([NoRequest EXCEPT !.op = "get_movies_by_genre",
                                       !.genre = genre, !.limit = {limit}],
                     [NoResult EXCEPT !.movies = list])

ClientGetAllGenres ==
    ClientCalled([NoRequest EXCEPT !.op = "get_all_genres"],
                 [NoResult EXCEPT !.genres = MockGetAllGenres])

ClientSearchMoviesByTitle ==
    \E term \in Terms :
      ClientCalled([NoRequest EXCEPT !.op = "search_movies_by_title", !.query = {term}],
                   [NoResult EXCEPT !.movies = MockSearchMoviesByTitle(term)])

ClientGetMoviesByYearRange ==
    \E start_year \in ReqYears, end_year \in ReqYears :
      ClientCalled([NoRequest EXCEPT !.op = "get_movies_by_year_range",
                                     !.start_year = start_year, !.end_year = end_year],
                   [NoResult EXCEPT !.movies =
                        MockGetMoviesByYearRange(start_year, end_year)])

ClientGetMoviesByRatingThreshold ==
    \E min_rating \in SvcRatings :
      ClientCalled([NoRequest EXCEPT !.op = "get_movies_by_rating_threshold",
                                     !.min_rating = min_rating],
                   [NoResult EXCEPT !.movies =
                        MockGetMoviesByRatingThreshold(min_rating)])

\* the store is seeded and the API service started, or not, while the pages
\* call the client
NextClient ==
    \/ InitDatabase
    \/ Startup
    \/ ClientGetAllMovies
    \/ ClientGetMovieById
    \/ ClientGetMoviesByGenre
    \/ ClientGetAllGenres
    \/ ClientSearchMoviesByTitle
    \/ ClientGetMoviesByYearRange
    \/ ClientGetMoviesByRatingThreshold

SpecClient ==
    Init /\ [][NextClient]_vars

-----------------------------------------------------------------------------
(* The pages.  A page function is followed from the list get_all_movies      *)
(* hands it: api_client.py stands in for the client of the API ("will be     *)
(* replaced with real HTTP requests"), so the lists are its own sample list  *)
(* and lists of movies as the API serves them, where year and rating may be *)
(* None.                                                                     *)

\* (no list holds two genres that differ in case only, nor a movie without
\* genre: on these lists the lower-case comparison of the stand-in and the
\* exact match of the API select the same movies of a genre)
PageLists ==
    { MockGetAllMovies,
      <<>>,
      <<Catalog[4]>>,
      <<Catalog[3]>>,
      <<Catalog[3], Catalog[2]>>,
      <<Catalog[1], Catalog[6], Catalog[7]>>,
      <<Movie(1, SAMPLE_MOVIES[1]), Movie(2, SAMPLE_MOVIES[2]), Movie(3, SAMPLE_MOVIES[3]),
        Movie(4, SAMPLE_MOVIES[4]), Catalog[6]>> }

\* the default values of the year inputs of the home page
DefaultStartYear == 1900
DefaultEndYear == 2030

\* the widgets of the home page: the genre is "All Genres" or a genre of the
\* list, the years are within 1888..2030 (number_input), the rating is a
\* multiple of 0.5 within 0..10 (slider)
HomeInputs(list) ==
    [ search_term    : { <<>>, <<"D","A","R","K">> },
      selected_genre : {"All Genres"} \cup
                       { g \in {"Action", "Thriller", "Drama"} :
                           \E i \in DOMAIN list : list[i].genre = {g} },
      start_year     : {DefaultStartYear, 2010},
      end_year       : {2008, DefaultEndYear},
      min_rating     : {0, 85},
      apply_filters  : BOOLEAN ]

\* validate_year_range without the comparison of the two years
ValidateYearRange_unordered(start_year, end_year) ==
    /\ MinYear <= start_year /\ start_year <= MaxYear
    /\ MinYear <= end_year /\ end_year <= MaxYear

ValidateYearRange(start_year, end_year) ==
    /\ MinYear <= start_year /\ start_year <= MaxYear
    /\ MinYear <= end_year /\ end_year <= MaxYear
    /\ start_year <= end_year

\* lines 58-75 of home.py with the filters as alternatives (if / elif)
FilterMovies_elif(list, in) ==
    IF in.apply_filters \/ in.search_term # <<>> \/ in.selected_genre # "All Genres"
       \/ in.min_rating > 0
    THEN IF in.search_term # <<>>
         THEN SelectSeq(list, LAMBDA m : InStr(Lower(in.search_term), Lower(m.title)))
         ELSE IF in.selected_genre # "All Genres"
         THEN SelectSeq(list, LAMBDA m : m.genre = {in.selected_genre})
         ELSE IF ValidateYearRange(in.start_year, in.end_year)
         THEN SelectSeq(list, LAMBDA m : \E y \in m.year :
                                  y # 0 /\ in.start_year <= y /\ y <= in.end_year)
         ELSE IF in.min_rating > 0
         THEN SelectSeq(list, LAMBDA m : \E r \in m.rating : r # 0 /\ r >= in.min_rating)
         ELSE list
    ELSE list

\* lines 58-75 of home.py: filtered_movies
FilterMovies(list, in) ==
    LET by_title  == IF in.search_term # <<>>
                     THEN SelectSeq(list, LAMBDA m :
                              InStr(Lower(in.search_term), Lower(m.title)))
                     ELSE list
        by_genre  == IF in.selected_genre # "All Genres"
                     THEN SelectSeq(by_title, LAMBDA m : m.genre = {in.selected_genre})
                     ELSE by_title
        by_year   == IF ValidateYearRange(in.start_year, in.end_year)
                     THEN SelectSeq(by_genre, LAMBDA m : \E y \in m.year :
                              y # 0 /\ in.start_year <= y /\ y <= in.end_year)
                     ELSE by_genre
        by_rating == IF in.min_rating > 0
                     THEN SelectSeq(by_year, LAMBDA m : \E r \in m.rating :
                              r # 0 /\ r >= in.min_rating)
                     ELSE by_year
    IN  IF in.apply_filters \/ in.search_term # <<>> \/ in.selected_genre # "All Genres"
           \/ in.min_rating > 0
        THEN by_rating
        ELSE list

\* sum(...) over a list of numbers
RECURSIVE Sum(_)
Sum(numbers) ==
    IF numbers = <<>> THEN 0 ELSE Head(numbers) + Sum(Tail(numbers))

\* max(items, key=...), keys[i] being the key of items[i]: the first item
\* whose key no other item exceeds
FirstMax(items, keys) ==
    items[CHOOSE i \in DOMAIN items :
            /\ \A j \in DOMAIN items : keys[j] <= keys[i]
            /\ \A j \in 1..(i - 1) : keys[j] < keys[i]]

\* the truthy ratings, and the truthy years, of a list of movies
RatingsOf(list) ==
    LET rated == SelectSeq(list, LAMBDA m : \E r \in m.rating : r # 0)
    IN  [i \in 1..Len(rated) |-> CHOOSE r \in rated[i].rating : TRUE]

YearsOf(list) ==
    LET dated == SelectSeq(list, LAMBDA m : \E y \in m.year : y # 0)
    IN  [i \in 1..Len(dated) |-> CHOOSE y \in dated[i].year : TRUE]

\* lines 97-122 of home.py: the statistics of the displayed movies, or the
\* exception that ends the run (a division by len([]), min() of nothing)
HomeStatistics(filtered_movies) ==
    LET ratings == RatingsOf(filtered_movies)
        years   == YearsOf(filtered_movies)
        genres  == Distinct([i \in 1..Len(filtered_movies) |-> filtered_movies[i].genre])
        count(g) == Len(SelectSeq(filtered_movies, LAMBDA m : m.genre = g))
        rating_key(m) == IF \E r \in m.rating : r # 0
                         THEN CHOOSE r \in m.rating : TRUE ELSE 0
    IN  IF ratings = <<>> THEN [exception |-> "ZeroDivisionError", stats |-> {}]
        ELSE IF years = <<>> THEN [exception |-> "ValueError", stats |-> {}]
        ELSE [exception |-> "",
              stats |-> {[rating_sum |-> Sum(ratings), rating_count |-> Len(ratings),
                          year_min |-> { y \in Elems0(years) : \A z \in Elems0(years) : y <= z },
                          year_max |-> { y \in Elems0(years) : \A z \in Elems0(years) : y >= z },
                          most_common_genre |-> FirstMax(genres, [i \in DOMAIN genres |-> count(genres[i])]),
                          top_rated |-> FirstMax(filtered_movies,
                                                  [i \in DOMAIN filtered_movies |->
                                                     rating_key(filtered_movies[i])])]}]

\* show_home_page from line 27 on, for the list of line 25 and the values of
\* the widgets: what the run displayed and how it ended
ShowHomePage(list, in) ==
    LET filtered_movies == FilterMovies(list, in)
        statistics == HomeStatistics(filtered_movies)
        shown == [NoView EXCEPT !.fn = "show_home_page", !.rendered = "home",
                                !.input = in, !.list = list,
                                !.displayed = filtered_movies]
    IN  IF filtered_movies = <<>>
        THEN [shown EXCEPT !.outcome = "completed", !.messages = {"warning"}]
        ELSE IF statistics.exception # ""
        THEN [shown EXCEPT !.outcome = "raised", !.exception = statistics.exception]
        ELSE [shown EXCEPT !.outcome = "completed", !.stats = statistics.stats]

\* a step of a page function
PageStep(v) ==
    /\ view' = v
    /\ UNCHANGED <<movies, tableExists, started, seedLog, request, fault, response,
                   call, result>>
    /\ UNCHANGED <<sessionVars, seederVars, clientVars, sessionPage, formatCall, initVars>>

\* line 25 of home.py: movies = movie_api.get_all_movies(), at the start of
\* every run of the page
HomeLoad ==
    \E list \in PageLists :
      PageStep([NoView EXCEPT !.fn = "show_home_page", !.outcome = "running",
                              !.list = list])

\* the rest of the run, with the values the widgets hold in it
HomeRender ==
    /\ view.fn = "show_home_page"
    /\ view.outcome = "running"
    /\ \E in \in HomeInputs(view.list) : PageStep(ShowHomePage(view.list, in))

NextHome ==
    \/ HomeLoad
    \/ HomeRender

SpecHome ==
    Init /\ [][NextHome]_vars

\* get_movies_by_genre of the client, over the list the client holds: the
\* set of lists the call may return
ClientMoviesByGenre(sample_movies, genre, limit) ==
    LET genre_movies == SelectSeq(sample_movies,
                           LAMBDA m : \E g \in m.genre : GenreLower(g) = GenreLower(genre))
    IN  IF Len(genre_movies) <= limit THEN {genre_movies}
        ELSE RandomSample(genre_movies, limit)

\* the number of similar movies the details page asks for
SimilarLimit == 4

\* the choices on the details page: a movie of the selectbox (the first one
\* unless the user picks another) and at most one navigation button
DetailsInputs(list) ==
    [ choice : IF list = <<>> THEN {0} ELSE DOMAIN list,
      click  : {"none", "home", "genre_recommendations"} ]

\* the movie the loop of lines 36-40 finds for the chosen "title (year)"
SelectedMovie(list, choice) ==
    IF list = <<>> THEN {}
    ELSE { list[CHOOSE i \in DOMAIN list :
                  /\ list[i].title = list[choice].title
                  /\ list[i].year = list[choice].year
                  /\ \A j \in 1..(i - 1) : list[j].title # list[choice].title
                                           \/ list[j].year # list[choice].year] }

\* show_movie_details without line 55, the filter on the selected movie's id
ShowMovieDetails_unfiltered(list, in, answer) ==
    LET selected_movie == SelectedMovie(list, in.choice)
        shown == [NoView EXCEPT !.fn = "show_movie_details", !.rendered = "movie_details",
                                !.outcome = "completed", !.input = in, !.list = list,
                                !.selected = selected_movie]
    IN  IF selected_movie = {}
        THEN [shown EXCEPT !.messages = {"error"}]
        ELSE [shown EXCEPT !.displayed = answer, !.similar = answer,
                           !.messages = IF answer = <<>> THEN {"info"} ELSE {}]

\* show_movie_details from line 26 on, for the list of line 25, the choices
\* of the user and the list get_movies_by_genre returned at line 54
ShowMovieDetails(list, in, answer) ==
    LET selected_movie == SelectedMovie(list, in.choice)
        same_genre_movies == SelectSeq(answer, LAMBDA m : {m.id} # { s.id : s \in selected_movie })
        shown == [NoView EXCEPT !.fn = "show_movie_details", !.rendered = "movie_details",
                                !.outcome = "completed", !.input = in, !.list = list,
                                !.selected = selected_movie]
    IN  IF selected_movie = {}
        THEN [shown EXCEPT !.messages = {"error"}]
        ELSE [shown EXCEPT !.displayed = answer, !.similar = same_genre_movies,
                           !.messages = IF same_genre_movies = <<>> THEN {"info"} ELSE {}]

\* line 25 of movie_details.py: movies = movie_api.get_all_movies()
DetailsLoad ==
    \E list \in PageLists :
      PageStep([NoView EXCEPT !.fn = "show_movie_details", !.outcome = "running",
                              !.list = list])

\* the rest of the run; a navigation button stores its page before st.rerun()
DetailsRender ==
    /\ view.fn = "show_movie_details"
    /\ view.outcome = "running"
    /\ \E in \in DetailsInputs(view.list) :
         \E answer \in UNION { ClientMoviesByGenre(view.list, g, SimilarLimit) :
                                 g \in UNION { s.genre : s \in SelectedMovie(view.list, in.choice) } }
                       \cup (IF SelectedMovie(view.list, in.choice) = {} THEN {<<>>} ELSE {}) :
           /\ view' = ShowMovieDetails(view.list, in, answer)
           /\ sessionPage' = IF in.click = "none" THEN sessionPage ELSE {in.click}
    /\ UNCHANGED <<movies, tableExists, started, seedLog, request, fault, response,
                   call, result>>
    /\ UNCHANGED <<sessionVars, seederVars, clientVars, formatCall, initVars>>

NextDetails ==
    \/ DetailsLoad
    \/ DetailsRender

SpecDetails ==
    Init /\ [][NextDetails]_vars

-----------------------------------------------------------------------------
(* app.py: main, and pages/genre_recommendations.py.  Both read attributes   *)
(* of the module-level client, movie_api = MockMovieAPI().                   *)

\* the attributes an instance of MockMovieAPI has: the one __init__ assigns
\* and the methods of the class
MockMovieAPIAttrs ==
    { "sample_movies", "_load_sample_data", "get_all_movies", "get_movie_by_id",
      "get_movies_by_genre", "get_all_genres", "search_movies_by_title",
      "get_movies_by_year_range", "get_movies_by_rating_threshold" }

\* the pages main routes to
Pages == {"home", "genre_recommendations", "movie_details"}

\* what a run of main may be given: the sidebar button clicked, if any, and
\* the value a liveness probe would return if the client had one
MainInputs ==
    [ click : {"none"} \cup Pages, probe : BOOLEAN ]

\* lines 131-146 of app.py: the page rendered for a stored page value, and
\* the value stored afterwards
Dispatch(page) ==
    IF page \in Pages THEN [rendered |-> page, page |-> page]
    ELSE [rendered |-> "home", page |-> "home"]

\* a run of main for the stored page value (a set, empty when 'page' is not
\* in st.session_state): the value stored afterwards and what was shown
MainRun(page, in) ==
    LET page0 == IF page = {} THEN "home" ELSE CHOOSE x \in page : TRUE
        page1 == IF in.click = "none" THEN page0 ELSE in.click
        shown == [NoView EXCEPT !.fn = "main", !.input = in]
    IN  IF "test_connection" \notin MockMovieAPIAttrs
        THEN [ page |-> {page0},
               view |-> [shown EXCEPT !.outcome = "raised", !.exception = "AttributeError"] ]
        ELSE IF in.click # "none"
        THEN [ page |-> {page1},
               view |-> [shown EXCEPT !.outcome = "rerun",
                                      !.messages = {IF in.probe THEN "connected"
                                                    ELSE "disconnected"}] ]
        ELSE IF "base_url" \notin MockMovieAPIAttrs
        THEN [ page |-> {page1},
               view |-> [shown EXCEPT !.outcome = "raised", !.exception = "AttributeError",
                                      !.messages = {IF in.probe THEN "connected"
                                                    ELSE "disconnected"}] ]
        ELSE [ page |-> {Dispatch(page1).page},
               view |-> [shown EXCEPT !.outcome = "completed",
                                      !.rendered = Dispatch(page1).rendered,
                                      !.messages = {IF in.probe THEN "connected"
                                                    ELSE "disconnected"}] ]

\* one run of the script: streamlit calls main
Main ==
    /\ \E in \in MainInputs :
         /\ view' = MainRun(sessionPage, in).view
         /\ sessionPage' = MainRun(sessionPage, in).page
    /\ UNCHANGED <<movies, tableExists, started, seedLog, request, fault, response,
                   call, result>>
    /\ UNCHANGED <<sessionVars, seederVars, clientVars, formatCall, initVars>>

\* show_genre_recommendations: line 26 reads movie_api.base_url inside the
\* outer try, line 30 calls test_connection inside the inner one; either
\* handler reports with st.error and the function returns
ShowGenreRecommendations(probe) ==
    LET shown == [NoView EXCEPT !.fn = "show_genre_recommendations",
                                !.rendered = "genre_recommendations",
                                !.outcome = "completed", !.input = [probe |-> probe]]
    IN  IF "base_url" \notin MockMovieAPIAttrs
        THEN [shown EXCEPT !.exception = "AttributeError", !.messages = {"error"}]
        ELSE IF "test_connection" \notin MockMovieAPIAttrs
        THEN [shown EXCEPT !.exception = "AttributeError", !.messages = {"info", "error"}]
        ELSE IF ~probe
        THEN [shown EXCEPT !.messages = {"info", "error"}]
        ELSE [shown EXCEPT !.messages = {"info"}]

\* a run of the genre page
GenreRender ==
    \E probe \in BOOLEAN : PageStep(ShowGenreRecommendations(probe))

NextApp ==
    \/ Main
    \/ HomeLoad
    \/ HomeRender
    \/ GenreRender
    \/ DetailsLoad
    \/ DetailsRender

SpecApp ==
    Init /\ [][NextApp]_vars

-----------------------------------------------------------------------------
(* utils/helpers.py: format_movie_data.  A value of the movie dict that the  *)
(* function inspects (cast, rating) is a record: kind is "absent" (the key   *)
(* is missing), "none", "num", "bool", "str" or "list"; a number is held in  *)
(* hundredths (8.84 is 884).                                                 *)

PyAbsent == [kind |-> "absent", num |-> 0, chars |-> <<>>, items |-> <<>>]
PyNone == [kind |-> "none", num |-> 0, chars |-> <<>>, items |-> <<>>]
PyNum(n) == [kind |-> "num", num |-> n, chars |-> <<>>, items |-> <<>>]
PyBool(b) == [kind |-> "bool", num |-> IF b THEN 1 ELSE 0, chars |-> <<>>, items |-> <<>>]
PyStr(s) == [kind |-> "str", num |-> 0, chars |-> s, items |-> <<>>]
PyList(l) == [kind |-> "list", num |-> 0, chars |-> <<>>, items |-> l]

\* json.loads raising JSONDecodeError
JSONDecodeError == [kind |-> "JSONDecodeError", num |-> 0, chars |-> <<>>, items |-> <<>>]

\* bool(v) as "movie.get(key) and ..." takes it: a missing key gives None
Truthy(v) ==
    CASE v.kind = "num"  -> v.num # 0
      [] v.kind = "bool" -> v.num # 0
      [] v.kind = "str"  -> v.chars # <<>>
      [] v.kind = "list" -> v.items # <<>>
      [] OTHER           -> FALSE

\* s without its leading and trailing blanks
RECURSIVE Trim(_)
Trim(s) ==
    IF s = <<>> THEN s
    ELSE IF Head(s) = " " THEN Trim(Tail(s))
    ELSE IF s[Len(s)] = " " THEN Trim(SubSeq(s, 1, Len(s) - 1))
    ELSE s

\* the pieces of s between the commas that stand outside a JSON string
SplitCommas(s) ==
    LET quotes(i) == Cardinality({ j \in 1..i : s[j] = "\"" })
        commas == { i \in 1..Len(s) : s[i] = "," /\ quotes(i) % 2 = 0 }
        cuts   == SetToSeq(commas \cup {0, Len(s) + 1})
    IN  [k \in 1..(Len(cuts) - 1) |-> SubSeq(s, cuts[k] + 1, cuts[k + 1] - 1)]

\* the number a run of decimal digits denotes
RECURSIVE DecimalValue(_)
DecimalValue(t) ==
    IF t = <<>> THEN 0
    ELSE 10 * DecimalValue(SubSeq(t, 1, Len(t) - 1))
         + (CHOOSE n \in 0..9 : <<"0","1","2","3","4","5","6","7","8","9">>[n + 1] = t[Len(t)])

\* json.loads on a text that is no array: null, true, false, an unsigned
\* integer or a string without escapes; anything else is no JSON text
JsonScalar(t) ==
    IF t = <<"n","u","l","l">> THEN PyNone
    ELSE IF t = <<"t","r","u","e">> THEN PyBool(TRUE)
    ELSE IF t = <<"f","a","l","s","e">> THEN PyBool(FALSE)
    ELSE IF /\ t # <<>>
            /\ \A i \in 1..Len(t) : t[i] \in {"0","1","2","3","4","5","6","7","8","9"}
            /\ (Len(t) > 1 => t[1] # "0")
         THEN PyNum(100 * DecimalValue(t))
    ELSE IF /\ Len(t) >= 2 /\ t[1] = "\"" /\ t[Len(t)] = "\""
            /\ \A i \in 2..(Len(t) - 1) : t[i] \notin {"\"", "\\"}
         THEN PyStr(SubSeq(t, 2, Len(t) - 1))
    ELSE JSONDecodeError

\* json.loads(s), for the JSON texts above and the arrays of them
JsonLoads(s) ==
    LET t == Trim(s)
    IN  IF Len(t) >= 2 /\ t[1] = "[" /\ t[Len(t)] = "]"
        THEN LET inner == Trim(SubSeq(t, 2, Len(t) - 1))
                 parts == SplitCommas(inner)
                 vals  == [k \in 1..Len(parts) |-> JsonScalar(Trim(parts[k]))]
             IN  IF inner = <<>> THEN PyList(<<>>)
                 ELSE IF \E k \in 1..Len(vals) : vals[k] = JSONDecodeError
                      THEN JSONDecodeError
                      ELSE PyList(vals)
        ELSE JsonScalar(t)

\* round(float(x), 1) on hundredths: the nearest tenth; a value ending in 5
\* hundredths goes where the double nearest to it goes (8.25 and 8.75 are
\* doubles and go to the even tenth, 0.05 and 8.15 are a little above and
\* 8.85 a little below the decimal)
Round1(h) ==
    LET r == h % 10
    IN  IF r < 5 THEN h - r
        ELSE IF r > 5 THEN h - r + 10
        ELSE CASE h = 5   -> 10
               [] h = 815 -> 820
               [] h = 825 -> 820
               [] h = 875 -> 880
               [] h = 885 -> 880
               [] OTHER   -> IF ((h - r) \div 10) % 2 = 0 THEN h - r ELSE h - r + 10

\* format_movie_data without the copy: formatted_movie = movie
FormatMovieData_nocopy(movie) ==
    LET parsed == JsonLoads(movie.cast.chars)
        cast1  == IF Truthy(movie.cast) /\ movie.cast.kind = "str"
                  THEN IF parsed = JSONDecodeError THEN PyList(<<movie.cast>>) ELSE parsed
                  ELSE movie.cast
        cast2  == IF cast1.kind # "list" THEN PyList(<<>>) ELSE cast1
        rating == IF Truthy(movie.rating) THEN PyNum(Round1(movie.rating.num))
                  ELSE movie.rating
        formatted_movie == [movie EXCEPT !.cast = cast2, !.rating = rating]
    IN  [result |-> formatted_movie, after |-> formatted_movie]

\* format_movie_data without the "ensure cast is always a list" step
FormatMovieData_nolistcheck(movie) ==
    LET parsed == JsonLoads(movie.cast.chars)
        cast1  == IF Truthy(movie.cast) /\ movie.cast.kind = "str"
                  THEN IF parsed = JSONDecodeError THEN PyList(<<movie.cast>>) ELSE parsed
                  ELSE movie.cast
        rating == IF Truthy(movie.rating) THEN PyNum(Round1(movie.rating.num))
                  ELSE movie.rating
    IN  [result |-> [movie EXCEPT !.cast = cast1, !.rating = rating], after |-> movie]

\* format_movie_data(movie): the dict returned, and the argument as the call
\* leaves it (the function writes to its copy only)
FormatMovieData(movie) ==
    LET parsed == JsonLoads(movie.cast.chars)
        cast1  == IF Truthy(movie.cast) /\ movie.cast.kind = "str"
                  THEN IF parsed = JSONDecodeError THEN PyList(<<movie.cast>>) ELSE parsed
                  ELSE movie.cast
        cast2  == IF cast1.kind # "list" THEN PyList(<<>>) ELSE cast1
        rating == IF Truthy(movie.rating) THEN PyNum(Round1(movie.rating.num))
                  ELSE movie.rating
    IN  [result |-> [movie EXCEPT !.cast = cast2, !.rating = rating], after |-> movie]

\* the cast values of the movie dicts handed to format_movie_data
CastValues ==
    { PyAbsent, PyNone, PyNum(500), PyList(<<>>), PyList(<<PyStr(<<"a">>)>>) }
    \cup { PyStr(c) : c \in { <<>>,
                              <<"[","\"","a","\"",","," ","\"","b","\"","]">>,
                              <<"[","\"","a",",","b","\"","]">>,
                              <<"[","]">>,
                              <<" ","[","5","]"," ">>,
                              <<"\"","a","\"">>,
                              <<"n","u","l","l">>,
                              <<"5">>,
                              <<"a",","," ","b">>,
                              <<"[","\"","a","\"">> } }

\* the rating values of those dicts, in hundredths
RatingValues ==
    { PyAbsent, PyNone }
    \cup { PyNum(n) : n \in {0, 4, 825, 875, 884, 885, 886, 1000} }

MovieDicts ==
    { [id |-> 1, title |-> <<"U","p">>, year |-> {2009}, genre |-> {"Comedy"},
       rating |-> r, cast |-> c] : r \in RatingValues, c \in CastValues }

\* a page formats a movie dict
FormatMovie ==
    /\ \E movie \in MovieDicts :
         LET done == FormatMovieData(movie)
         IN  formatCall' = [fn |-> "format_movie_data", pass |-> 1, arg |-> movie,
                            result |-> done.result, after |-> done.after]
    /\ UNCHANGED <<movies, tableExists, started, seedLog, request, fault, response,
                   call, result>>
    /\ UNCHANGED <<sessionVars, seederVars, clientVars, uiVars, initVars>>

\* the formatted dict is formatted once more
FormatAgain ==
    /\ formatCall.pass = 1
    /\ LET done == FormatMovieData(formatCall.result)
       IN  formatCall' = [fn |-> "format_movie_data", pass |-> 2,
                          arg |-> formatCall.result,
                          result |-> done.result, after |-> done.after]
    /\ UNCHANGED <<movies, tableExists, started, seedLog, request, fault, response,
                   call, result>>
    /\ UNCHANGED <<sessionVars, seederVars, clientVars, uiVars, initVars>>

NextFormat ==
    \/ FormatMovie
    \/ FormatAgain

SpecFormat ==
    Init /\ [][NextFormat]_vars

-----------------------------------------------------------------------------
(* Vocabulary of the properties *)

\* the elements of a list
Elems(list) ==
    { list[i] : i \in DOMAIN list }

\* no element occurs twice in the list
NoDuplicates(list) ==
    \A i, j \in DOMAIN list : i # j => list[i] # list[j]

\* t occurs in s as a run of consecutive characters
Contains(s, t) ==
    \E k \in 0..(Len(s) - Len(t)) : SubSeq(s, k + 1, k + Len(t)) = t

\* a step that is a direct call of the service method op
CallStep(op) ==
    seedLog' = seedLog /\ call'.op = op

\* a step that serves a request to the handler op
ServeStep(op) ==
    seedLog' = seedLog /\ request'.op = op

-----------------------------------------------------------------------------
(* C1: get_random_movies_by_genre(g, limit), limit >= 1, returns only movies *)
(* whose genre is exactly g, exactly min(count(g), limit) of them, none      *)
(* twice, all of them rows of the store, and the whole matching set when     *)
(* count(g) <= limit.                                                        *)

GenreSampleOk(db, g, limit, list) ==
    LET matching == { m \in Elems(db) : m.genre = {g} }
        count    == Cardinality(matching)
    IN  /\ \A i \in DOMAIN list : list[i].genre = {g}
        /\ Len(list) = (IF count < limit THEN count ELSE limit)
        /\ NoDuplicates(list)
        /\ Elems(list) \subseteq matching
        /\ (count <= limit => Elems(list) = matching)

\* C1: every list a call get_random_movies_by_genre(g, limit) with limit >= 1
\* returns holds only movies of genre g, has min(count(g), limit) entries, no
\* entry twice, only rows of the store, and all of them when count(g) <= limit
C1_GenreSample ==
    [][ CallStep("get_random_movies_by_genre") =>
          \A limit \in call'.limit :
             limit >= 1 =>
                GenreSampleOk(movies, call'.genre, limit, result'.movies) ]_vars

\* a call that had to sample: more matching movies than the limit
C1_Witness ==
    /\ call.op = "get_random_movies_by_genre"
    /\ \E limit \in call.limit :
         /\ Cardinality({ m \in Elems(movies) : m.genre = {call.genre} }) > limit
         /\ Len(result.movies) = limit
         /\ limit >= 2

-----------------------------------------------------------------------------
(* C3: for start <= end, get_movies_by_year_range(start, end) returns only   *)
(* movies with a non-null year in [start, end], and every such movie of the  *)
(* store.                                                                    *)

InYearRange(m, start, end) ==
    m.year # {} /\ \A y \in m.year : start <= y /\ y <= end

\* C3: every list a call get_movies_by_year_range(start, end) with
\* start <= end returns holds exactly the movies of the store whose year is
\* not NULL and lies in [start, end]
C3_YearRange ==
    [][ (CallStep("get_movies_by_year_range")
            /\ call'.start_year <= call'.end_year) =>
          /\ \A m \in Elems(result'.movies) :
                InYearRange(m, call'.start_year, call'.end_year)
          /\ \A m \in Elems(movies) :
                InYearRange(m, call'.start_year, call'.end_year)
                   => m \in Elems(result'.movies) ]_vars

\* a call whose range ends exactly at the year of a returned movie, on a
\* store that also holds a movie without a year
C3_Witness ==
    /\ call.op = "get_movies_by_year_range"
    /\ \E m \in Elems(result.movies) : m.year = {call.end_year}
    /\ \E m \in Elems(movies) : m.year = {}

-----------------------------------------------------------------------------
(* C4: get_movies_by_rating_threshold(t) returns exactly the movies whose    *)
(* rating is non-null and >= t; with t = 0 that is every rated movie, a      *)
(* movie rated exactly 0 included.                                           *)

\* C4: every list a call get_movies_by_rating_threshold(t) returns holds
\* exactly the movies whose rating is not NULL and >= t, once each
C4_RatingThreshold ==
    [][ CallStep("get_movies_by_rating_threshold") =>
          /\ Elems(result'.movies) =
                { m \in Elems(movies) :
                    m.rating # {} /\ \A r \in m.rating : r >= call'.min_rating }
          /\ NoDuplicates(result'.movies)
          /\ (call'.min_rating = 0 =>
                Elems(result'.movies) = { m \in Elems(movies) : m.rating # {} }) ]_vars

\* threshold 0 on a store with a movie rated 0 and an unrated movie
C4_Witness ==
    /\ call.op = "get_movies_by_rating_threshold"
    /\ call.min_rating = 0
    /\ \E m \in Elems(result.movies) : m.rating = {0}
    /\ \E m \in Elems(movies) : m.rating = {}

-----------------------------------------------------------------------------
(* C5: search_movies_by_title(term), term non-empty, returns exactly the     *)
(* movies whose title contains term as a substring when case is ignored, no  *)
(* character of term being special.                                          *)

\* C5: every list a call search_movies_by_title(term) with a non-empty term
\* returns holds exactly the movies whose lower-cased title contains the
\* lower-cased term as a run of consecutive characters
C5_TitleSubstring ==
    [][ CallStep("search_movies_by_title") =>
          \A term \in call'.query :
             term # <<>> =>
                Elems(result'.movies) =
                   { m \in Elems(movies) : Contains(Lower(m.title), Lower(term)) } ]_vars

-----------------------------------------------------------------------------
(* C6: get_all_genres returns each distinct genre of the store once, never   *)
(* NULL and never the empty string; on the seeded store it returns exactly   *)
(* Action, Comedy, Drama, Horror, Sci-Fi, Thriller.                          *)

\* C6: every list a call get_all_genres returns holds each genre of the
\* store once, NULL and '' excepted, and the six sample genres on the seeded
\* store
C6_AllGenres ==
    [][ CallStep("get_all_genres") =>
          /\ NoDuplicates(result'.genres)
          /\ Elems(result'.genres) =
                { g \in UNION { m.genre : m \in Elems(movies) } : g # "" }
          /\ ((seedLog # <<>> /\ seedLog[1].inserted = SampleCount) =>
                Elems(result'.genres) =
                   {"Action", "Comedy", "Drama", "Horror", "Sci-Fi", "Thriller"}) ]_vars

\* genres listed for a store holding a movie without a genre (NULL or '')
\* and two movies of one genre, which is listed once
C6_Witness ==
    /\ call.op = "get_all_genres"
    /\ Len(result.genres) = 1
    /\ \E m \in Elems(movies) : m.genre = {} \/ m.genre = {""}
    /\ \E m, n \in Elems(movies) : m # n /\ m.genre = n.genre /\ m.genre # {}

-----------------------------------------------------------------------------
(* C2: when the store answers, GET /movies/{id} is 200 with the movie of    *)
(* that id if the store holds one, and 404 (not 200, not 500) if it holds   *)
(* none.                                                                    *)

-----------------------------------------------------------------------------
(* C7: a seed run on an empty store inserts exactly the 24 sample movies, a *)
(* seed run on a store holding a row inserts nothing; after any number of   *)
(* runs that began on an empty store, the store holds the 24 rows of the    *)
(* first run.                                                               *)

\* the store holds exactly the sample movies, in order, under ids 1..24
IsSeededStore(db) ==
    /\ Len(db) = SampleCount
    /\ \A i \in 1..Len(db) : db[i] = Movie(i, SAMPLE_MOVIES[i])

\* C7: a seed run turns the empty store into the 24 sample rows and leaves
\* any other store as it is; once the first run found the store empty, the
\* store is the 24 sample rows for ever
C7_SeedIdempotent ==
    /\ [][ seedLog' # seedLog =>
             IF movies = <<>> THEN IsSeededStore(movies')
             ELSE movies' = movies ]_vars
    /\ []( (seedLog # <<>> /\ seedLog[1].existing = 0) => IsSeededStore(movies) )

\* two seed runs done, the first on an empty store
C7_Witness ==
    /\ Len(seedLog) = 2
    /\ seedLog[1].existing = 0
    /\ seedLog[2].existing = SampleCount
    /\ Len(movies) = SampleCount

-----------------------------------------------------------------------------
(* C8: every step other than the seed step (service startup, any request,   *)
(* answered or failed) leaves the rows of the store as they are.            *)

\* C8: a step that is not a seed run does not change the movies table
C8_OnlySeedWrites ==
    [][ seedLog' = seedLog => movies' = movies ]_vars

\* the service has started on the seeded store and a request has failed
C8_Witness ==
    /\ started
    /\ Len(movies) = SampleCount
    /\ request.op = "get_movies_by_genre"
    /\ response.status = 404

-----------------------------------------------------------------------------
(* C9: GET /movies/genre/{genre}?limit=N, N in 1..20, is 404 when no movie  *)
(* of the store has that genre, else 200 with total equal to the length of  *)
(* the list and at most N.                                                  *)

\* C9: a genre request with limit N in 1..20 during which the store does not
\* raise is answered 404 if no movie has the genre, else 200 with
\* total = len(movies) <= N
C9_GenreEndpoint ==
    [][ (ServeStep("get_movies_by_genre") /\ ~fault') =>
          \A N \in request'.limit :
             (MinLimit <= N /\ N <= MaxLimit) =>
                IF \A m \in Elems(movies) : m.genre # {request'.genre}
                THEN response'.status = 404
                ELSE /\ response'.status = 200
                     /\ response'.kind = "list"
                     /\ response'.total = {Len(response'.movies)}
                     /\ Len(response'.movies) >= 1
                     /\ Len(response'.movies) <= N ]_vars

\* a genre carried by more movies than the limit was answered with limit movies
C9_Witness ==
    /\ request.op = "get_movies_by_genre"
    /\ request.limit = {2}
    /\ Cardinality({ m \in Elems(movies) : m.genre = {request.genre} }) > 2
    /\ response.status = 200
    /\ response.total = {2}

-----------------------------------------------------------------------------
(* C10: a valid request to a list endpoint for which the store has no       *)
(* matching movie.                                                          *)

EmptyListOk(r) ==
    r.status = 200 /\ r.kind = "list" /\ r.movies = <<>> /\ r.total = {0}

\* the request is valid, the store answers and holds no movie that matches
NoMatch(req, f, db) ==
    /\ ~f
    /\ \/ req.op = "get_all_movies" /\ db = <<>>
       \/ /\ req.op = "search_movies_by_title"
          /\ req.query # {} /\ req.query # {<<>>}
          /\ \A q \in req.query, m \in Elems(db) :
                ~ILike(m.title, <<"%">> \o q \o <<"%">>)
       \/ /\ req.op = "get_movies_by_year_range"
          /\ req.start_year <= req.end_year
          /\ \A m \in Elems(db) : ~InYearRange(m, req.start_year, req.end_year)
       \/ /\ req.op = "get_movies_by_rating_threshold"
          /\ MinRating <= req.min_rating /\ req.min_rating <= MaxRating
          /\ \A m \in Elems(db) : \A r \in m.rating : r < req.min_rating

\* the same, for the genre endpoint
NoMatchGenre(req, f, db) ==
    /\ ~f
    /\ req.op = "get_movies_by_genre"
    /\ \A n \in req.limit : MinLimit <= n /\ n <= MaxLimit
    /\ \A m \in Elems(db) : m.genre # {req.genre}

\* C10 as stated: on every list endpoint, the genre endpoint included, such
\* a request is answered 200 with an empty list and total 0
C10_Original ==
    [][ (seedLog' = seedLog
           /\ (NoMatch(request', fault', movies)
                 \/ NoMatchGenre(request', fault', movies))) =>
          EmptyListOk(response') ]_vars

\* C10 amended: on the all-movies, search, year-range and rating-threshold
\* endpoints such a request is answered 200 with an empty list and total 0;
\* on the genre endpoint it is answered 404
C10_EmptyList ==
    [][ /\ (seedLog' = seedLog /\ NoMatch(request', fault', movies)) =>
              EmptyListOk(response')
        /\ (seedLog' = seedLog /\ NoMatchGenre(request', fault', movies)) =>
              response'.status = 404 ]_vars

\* a search that matches no title of a non-empty store was answered 200
C10_Witness ==
    /\ request.op = "search_movies_by_title"
    /\ movies # <<>>
    /\ NoMatch(request, fault, movies)
    /\ EmptyListOk(response)

-----------------------------------------------------------------------------
(* C11: GET /movies/year/{start}/{end}                                      *)

\* C11: a year-range request with start > end is answered 422, also when the
\* store would raise if it were queried; with start <= end and a store that
\* answers it is answered 200 with a list and total = len(movies)
C11_YearEndpoint ==
    [][ ServeStep("get_movies_by_year_range") =>
          IF request'.start_year > request'.end_year
          THEN response'.status = 422 /\ response'.kind = "error"
          ELSE ~fault' =>
                 /\ response'.status = 200
                 /\ response'.kind = "list"
                 /\ response'.total = {Len(response'.movies)} ]_vars

\* start > end was answered 422 although the store would have raised
C11_Witness ==
    /\ request.op = "get_movies_by_year_range"
    /\ request.start_year > request.end_year
    /\ fault
    /\ response.status = 422

-----------------------------------------------------------------------------
(* C12: parameters outside their declared range                             *)

-----------------------------------------------------------------------------
(* C13: faults of the store                                                 *)

\* the request passes the parameter declarations and the handler's own
\* check, so that the handler calls the query service
ServiceCalled(req) ==
    \/ req.op \in {"get_all_movies", "get_movie_by_id", "get_all_genres"}
    \/ /\ req.op = "get_movies_by_genre"
       /\ \A n \in req.limit : MinLimit <= n /\ n <= MaxLimit
    \/ /\ req.op = "search_movies_by_title"
       /\ req.query # {} /\ req.query # {<<>>}
    \/ /\ req.op = "get_movies_by_year_range"
       /\ req.start_year <= req.end_year
    \/ /\ req.op = "get_movies_by_rating_threshold"
       /\ MinRating <= req.min_rating /\ req.min_rating <= MaxRating

\* C13: on every endpoint, a request during which the store raises is
\* answered 500 with an error body, never 200; the 404 of the by-id and genre
\* handlers and the 422 of the year-range handler are answered as 404 and 422
C13_Faults ==
    [][ seedLog' = seedLog =>
          /\ (fault' /\ ServiceCalled(request')) =>
                /\ response'.status = 500
                /\ response'.kind = "error"
                /\ response'.body_status_code = {500}
                /\ response'.movies = <<>> /\ response'.total = {}
          /\ (~fault' /\ request'.op = "get_movie_by_id"
                /\ \A m \in Elems(movies) : m.id # request'.movie_id) =>
                response'.status = 404
          /\ (~fault' /\ ServiceCalled(request')
                /\ request'.op = "get_movies_by_genre"
                /\ \A m \in Elems(movies) : m.genre # {request'.genre}) =>
                response'.status = 404
          /\ (request'.op = "get_movies_by_year_range"
                /\ request'.start_year > request'.end_year) =>
                response'.status = 422 ]_vars

\* the store raised while the genres of a non-empty store were asked for
C13_Witness ==
    /\ request.op = "get_all_genres"
    /\ fault
    /\ movies # <<>>
    /\ response.status = 500

-----------------------------------------------------------------------------
(* C14: the status code inside the JSON body                                *)

\* C14 as stated: every response carries in its body a status code equal to
\* its HTTP status
C14_Original ==
    request.op # "none" => response.body_status_code = {response.status}

\* C14 amended: every 404, every 500 and the 422 raised by the year-range
\* handler carry in their body a status code equal to the HTTP status; a 200
\* and the 422 of a refused parameter carry no status code in the body
C14_ErrorBodies ==
    request.op # "none" =>
        /\ response.status \in {200, 404, 422, 500}
        /\ response.status \in {404, 500} =>
              response.body_status_code = {response.status}
        /\ (response.status = 422 /\ request.op = "get_movies_by_year_range") =>
              response.body_status_code = {422}
        /\ response.status = 200 => response.body_status_code = {}
        /\ (response.status = 422 /\ request.op # "get_movies_by_year_range") =>
              response.body_status_code = {}

\* a 404 whose body carries 404
C14_Witness ==
    /\ request.op = "get_movie_by_id"
    /\ response.status = 404
    /\ response.body_status_code = {404}

-----------------------------------------------------------------------------
(* C17: invariants of the stored movies                                     *)

\* C17: in every state the ids of the stored movies are pairwise distinct,
\* every rating that is not NULL lies in [0, 10], every year that is not NULL
\* lies in [1888, 2030] and every title is non-empty; no step changes the id
\* of a stored movie
C17_StoreInvariants ==
    /\ []( /\ \A i, j \in DOMAIN movies : i # j => movies[i].id # movies[j].id
           /\ \A m \in Elems(movies) :
                /\ \A r \in m.rating : 0 <= r /\ r <= 100
                /\ \A y \in m.year : 1888 <= y /\ y <= 2030
                /\ m.title # <<>> )
    /\ [][ \A i \in DOMAIN movies :
              i \in DOMAIN movies' /\ movies'[i].id = movies[i].id ]_vars

\* the store was seeded, seeded again, and then listed
C17_Witness ==
    /\ Len(movies) = SampleCount
    /\ Len(seedLog) = 2
    /\ request.op = "get_all_movies"
    /\ response.status = 200
    /\ Len(response.movies) = SampleCount

-----------------------------------------------------------------------------
(* The store session of a request: get_database_session.  The dependency is *)
(* a generator run around the handler, so that the sessions of requests in  *)
(* flight at the same time are opened and closed in any order.              *)

\* a session that no request has been given yet
NewSession ==
    Cardinality({ r \in 1..MaxRequests : reqSession[r] # 0 }) + 1

\* database_session = SessionLocal(), then yield
OpenSession(r) ==
    /\ started
    /\ reqPc[r] = "idle"
    /\ reqPc' = [reqPc EXCEPT ![r] = "handling"]
    /\ reqSession' = [reqSession EXCEPT ![r] = NewSession]
    /\ openSessions' = openSessions \cup {NewSession}
    /\ UNCHANGED <<movies, tableExists, started, seedLog, request, fault, response,
                   call, result, seederVars, clientVars, uiVars, formatCall, initVars>>

\* the handler runs with the session and returns, or raises (404, 422, 500)
Handle(r) ==
    /\ reqPc[r] = "handling"
    /\ \E raised \in BOOLEAN :
         reqPc' = [reqPc EXCEPT ![r] = IF raised THEN "raised" ELSE "returned"]
    /\ UNCHANGED <<movies, tableExists, started, seedLog, request, fault, response,
                   call, result, reqSession, openSessions, seederVars, clientVars, uiVars, formatCall, initVars>>

\* a dependency that closes the session after the yield without try/finally
CloseSession_nofinally(r) ==
    /\ reqPc[r] \in {"returned", "raised"}
    /\ reqPc' = [reqPc EXCEPT ![r] = "done"]
    /\ openSessions' = IF reqPc[r] = "returned" THEN openSessions \ {reqSession[r]}
                       ELSE openSessions
    /\ UNCHANGED <<movies, tableExists, started, seedLog, request, fault, response,
                   call, result, reqSession, seederVars, clientVars, uiVars, formatCall, initVars>>

\* finally: database_session.close()
CloseSession(r) ==
    /\ reqPc[r] \in {"returned", "raised"}
    /\ reqPc' = [reqPc EXCEPT ![r] = "done"]
    /\ openSessions' = openSessions \ {reqSession[r]}
    /\ UNCHANGED <<movies, tableExists, started, seedLog, request, fault, response,
                   call, result, reqSession, seederVars, clientVars, uiVars, formatCall, initVars>>

NextSessions ==
    \/ Startup
    \/ \E r \in 1..MaxRequests : OpenSession(r)
    \/ \E r \in 1..MaxRequests : Handle(r)
    \/ \E r \in 1..MaxRequests : CloseSession(r)

SpecSessions ==
    Init /\ [][NextSessions]_vars

-----------------------------------------------------------------------------
(* C15: one session per request, closed when the request completes          *)

\* C15: a request being handled holds an open session of its own, no session
\* is held by two requests, and the session of a completed request is
\* closed, whether its handler returned or raised
C15_Sessions ==
    /\ \A r \in 1..MaxRequests :
          /\ reqPc[r] \in {"handling", "returned", "raised"} =>
                reqSession[r] \in openSessions
          /\ reqPc[r] = "done" => reqSession[r] \notin openSessions
    /\ \A r1, r2 \in 1..MaxRequests :
          (r1 # r2 /\ reqPc[r1] # "idle" /\ reqPc[r2] # "idle") =>
             reqSession[r1] # reqSession[r2]
    /\ (\A r \in 1..MaxRequests : reqPc[r] \in {"idle", "done"}) => openSessions = {}

\* a request has completed while an earlier one, whose handler raised, still
\* holds its session
C15_Witness ==
    \E r1, r2 \in 1..MaxRequests :
       /\ reqPc[r1] = "done"
       /\ reqPc[r2] = "raised"
       /\ reqSession[r2] < reqSession[r1]
       /\ openSessions = {reqSession[r2]}

-----------------------------------------------------------------------------
(* Seeders that overlap: seed_database reads the row count and, in a later  *)
(* statement, inserts and commits.  Writes of the store are serialised, so  *)
(* the inserts and the commit of one seeder are one step.                   *)

\* create_all, then existing_movies = query(Movie).count()
SeedCheck(s) ==
    /\ seederPc[s] = "start"
    /\ seederPc' = [seederPc EXCEPT ![s] = "checked"]
    /\ seederCount' = [seederCount EXCEPT ![s] = Len(movies)]
    /\ tableExists' = TRUE
    /\ UNCHANGED <<movies, started, seedLog, request, fault, response, call, result,
                   sessionVars, clientVars, uiVars, formatCall, initVars>>

\* a seeder that counts again, under the write lock, before it inserts
SeedInsert_atomic(s) ==
    /\ seederPc[s] = "checked"
    /\ seederPc' = [seederPc EXCEPT ![s] = "done"]
    /\ movies' = IF Len(movies) > 0 THEN movies ELSE AddAll(movies, SAMPLE_MOVIES)
    /\ UNCHANGED <<tableExists, started, seedLog, request, fault, response, call,
                   result, seederCount, sessionVars, clientVars, uiVars, formatCall, initVars>>

\* if existing_movies > 0: return; else add every sample and commit
SeedInsert(s) ==
    /\ seederPc[s] = "checked"
    /\ seederPc' = [seederPc EXCEPT ![s] = "done"]
    /\ movies' = IF seederCount[s] > 0 THEN movies ELSE AddAll(movies, SAMPLE_MOVIES)
    /\ UNCHANGED <<tableExists, started, seedLog, request, fault, response, call,
                   result, seederCount, sessionVars, clientVars, uiVars, formatCall, initVars>>

NextConcurrentSeed ==
    \/ \E s \in 1..MaxSeeders : SeedCheck(s)
    \/ \E s \in 1..MaxSeeders : SeedInsert(s)

SpecConcurrentSeed ==
    Init /\ [][NextConcurrentSeed]_vars

-----------------------------------------------------------------------------
(* C16: the emptiness check and the inserts of the seed are not atomic      *)

\* the seeders that have read a row count of zero
SawEmpty ==
    { s \in 1..MaxSeeders : seederPc[s] # "start" /\ seederCount[s] = 0 }

\* C16: while at most one seeder has begun, the store holds at most 24 rows;
\* once all seeders are done, every seeder that read a count of zero has
\* inserted its 24 rows, so two that both read zero leave 48 rows
C16_SeedNotAtomic ==
    /\ Cardinality({ s \in 1..MaxSeeders : seederPc[s] # "start" }) <= 1 =>
          Len(movies) <= SampleCount
    /\ ((\A s \in 1..MaxSeeders : seederPc[s] = "done") /\ SawEmpty # {}) =>
          Len(movies) = SampleCount * Cardinality(SawEmpty)

\* two seeders both read zero rows and both inserted: every sample is stored
\* twice
C16_Witness ==
    /\ \A s \in 1..MaxSeeders : seederPc[s] = "done"
    /\ Cardinality(SawEmpty) = 2
    /\ Len(movies) = 2 * SampleCount
    /\ \A i \in 1..SampleCount : movies[i].title = movies[i + SampleCount].title

-----------------------------------------------------------------------------
(* C18: the sample is drawn afresh on every call                            *)

\* C18: on every store, for every genre g and limit with count(g) > limit,
\* the sets of movies that get_random_movies_by_genre(g, limit) may return
\* are all the subsets of limit matching movies, and they are more than one:
\* the result is not determined by the arguments and the store
C18_FreshRandomness ==
    \A g \in SvcGenres, limit \in SvcLimits :
       LET matching == { m \in Elems(movies) : m.genre = {g} }
           outcomes == { Elems(list) : list \in GetRandomMoviesByGenre(movies, g, limit) }
       IN  Cardinality(matching) > limit =>
              /\ outcomes = { S \in SUBSET matching : Cardinality(S) = limit }
              /\ Cardinality(outcomes) > 1

\* a call returned a sample that does not begin with the first matching movie
\* of the store
C18_Witness ==
    /\ call.op = "get_random_movies_by_genre"
    /\ \E limit \in call.limit :
         LET matching == SelectSeq(movies, LAMBDA m : m.genre = {call.genre})
         IN  /\ Len(matching) > limit
             /\ Len(result.movies) = limit
             /\ result.movies[1] # matching[1]
             /\ \A i \in 1..limit : result.movies[i] # matching[1]

-----------------------------------------------------------------------------
(* C19: the client hands the pages what the query service answers           *)

\* what the query service answers to the operation and arguments of the
\* client call c over the store db
ServiceResults(c, db) ==
    CASE c.op = "get_all_movies" ->
           {[NoResult EXCEPT !.movies = GetAllMovies(db)]}
      [] c.op = "get_movie_by_id" ->
           {[NoResult EXCEPT !.found = GetMovieById(db, c.movie_id)]}
      [] c.op = "get_movies_by_genre" ->
           { [NoResult EXCEPT !.movies = list] :
               list \in UNION { GetRandomMoviesByGenre(db, c.genre, limit) :
                                  limit \in c.limit } }
      [] c.op = "get_all_genres" ->
           {[NoResult EXCEPT !.genres = GetAllGenres(db)]}
      [] c.op = "search_movies_by_title" ->
           { [NoResult EXCEPT !.movies = SearchMoviesByTitle(db, q)] : q \in c.query }
      [] c.op = "get_movies_by_year_range" ->
           {[NoResult EXCEPT !.movies =
                 GetMoviesByYearRange(db, c.start_year, c.end_year)]}
      [] c.op = "get_movies_by_rating_threshold" ->
           {[NoResult EXCEPT !.movies =
                 GetMoviesByRatingThreshold(db, c.min_rating)]}
      [] OTHER -> {NoResult}

\* C19: while the API service is up, every client call returns what the
\* corresponding query-service operation returns over the store's current
\* movies (for the genre operation, one of the samples the service may draw):
\* the client adds, drops or re-selects no movie
C19_ClientRefinesService ==
    [][(started /\ seedLog' = seedLog /\ clientCall'.op # "none")
          => clientResult' \in ServiceResults(clientCall', movies')]_vars

-----------------------------------------------------------------------------
(* C20: a client call against an unreachable backend                        *)

\* C20: a client call made while the API service is not running returns an
\* empty list, or an absent value for get_movie_by_id, and signals a
\* human-readable message
C20_UnreachableBackend ==
    (clientCall.op # "none" /\ ~started)
       => /\ clientResult.movies = <<>>
          /\ clientResult.genres = <<>>
          /\ clientResult.found = {}
          /\ clientMessage # {}

-----------------------------------------------------------------------------
(* C24: format_movie_data changes display formatting only                    *)

\* what C24 says of every field but cast: the argument is left as it was,
\* the fields other than cast and rating are copied, and a non-zero rating
\* is rounded to one decimal
FormatKeepsRest(c) ==
    /\ c.after = c.arg
    /\ \A field \in {"id", "title", "year", "genre"} : c.result[field] = c.arg[field]
    /\ IF c.arg.rating.kind = "num" /\ c.arg.rating.num # 0
       THEN /\ c.result.rating.kind = "num"
            /\ c.result.rating.num % 10 = 0
            /\ c.result.rating.num - c.arg.rating.num \in -5..5
       ELSE c.result.rating = c.arg.rating

\* C24 as stated: besides the above, the result's cast is a list: the
\* parsed array when cast is a JSON array string, the raw string alone when
\* the string is not valid JSON, empty when cast is absent or is not a list
\* after parsing
C24_Original ==
    formatCall.pass = 1 =>
       LET c == formatCall
           parsed == JsonLoads(c.arg.cast.chars)
       IN  /\ FormatKeepsRest(c)
           /\ c.result.cast.kind = "list"
           /\ c.arg.cast.kind = "str" =>
                 c.result.cast = (IF parsed.kind = "list" THEN parsed
                                  ELSE IF parsed = JSONDecodeError THEN PyList(<<c.arg.cast>>)
                                  ELSE PyList(<<>>))
           /\ c.arg.cast.kind \in {"absent", "none"} => c.result.cast = PyList(<<>>)

\* C24, amended: the raw string alone is the cast only when the string is
\* not empty; an empty string gives the empty list, as does a cast that is
\* absent, None or neither a string nor a list; a cast that is a list is kept
C24_FormatOnly ==
    formatCall.pass = 1 =>
       LET c == formatCall
           parsed == JsonLoads(c.arg.cast.chars)
       IN  /\ FormatKeepsRest(c)
           /\ c.result.cast.kind = "list"
           /\ c.result.cast =
                 (IF c.arg.cast.kind = "str" /\ c.arg.cast.chars # <<>>
                  THEN IF parsed.kind = "list" THEN parsed
                       ELSE IF parsed = JSONDecodeError THEN PyList(<<c.arg.cast>>)
                       ELSE PyList(<<>>)
                  ELSE IF c.arg.cast.kind = "list" THEN c.arg.cast
                  ELSE PyList(<<>>))

\* a dict whose cast is a string that is not JSON and whose rating 8.84 was
\* rounded to 8.8
C24_Witness ==
    /\ formatCall.pass = 1
    /\ formatCall.arg.cast = PyStr(<<"a", ",", " ", "b">>)
    /\ formatCall.result.cast = PyList(<<PyStr(<<"a", ",", " ", "b">>)>>)
    /\ formatCall.arg.rating = PyNum(884)
    /\ formatCall.result.rating = PyNum(880)
    /\ formatCall.after = formatCall.arg

-----------------------------------------------------------------------------
(* C30: format_movie_data is idempotent                                      *)

\* C30: formatting a dict that format_movie_data returned gives that dict
\* again
C30_Idempotent ==
    formatCall.pass = 2 => formatCall.result = formatCall.arg

\* a dict with a parsed cast and a rounded rating was formatted again
C30_Witness ==
    /\ formatCall.pass = 2
    /\ formatCall.arg.cast.kind = "list"
    /\ Len(formatCall.arg.cast.items) = 2
    /\ formatCall.arg.rating = PyNum(880)
    /\ formatCall.result = formatCall.arg

-----------------------------------------------------------------------------
(* init_db.py with a store that may fail: one run of init_database, followed *)
(* statement by statement.  The rows added to the session are pending until  *)
(* commit writes them in one transaction; any statement of seed_database     *)
(* may raise.                                                                *)

InitStep(pc) ==
    /\ initPc' = pc
    /\ UNCHANGED <<started, seedLog, request, fault, response, call, result>>
    /\ UNCHANGED <<sessionVars, seederVars, clientVars, uiVars, formatCall>>

\* create_all, then SessionLocal(); a failure goes to "except Exception"
InitCreateTables ==
    /\ initPc = "start"
    /\ \/ /\ tableExists' = TRUE
          /\ initSession' = "open"
          /\ InitStep("count")
       \/ /\ UNCHANGED <<tableExists, initSession>>
          /\ InitStep("except")
    /\ UNCHANGED <<movies, pending, exitStatus>>

\* existing_movies = query(Movie).count(), and the return when it is not 0
SeedCount ==
    /\ initPc = "count"
    /\ \/ InitStep(IF Len(movies) > 0 THEN "finally" ELSE "add")
       \/ InitStep("rollback")
    /\ UNCHANGED <<movies, tableExists, pending, initSession, exitStatus>>

\* a loop in which the session writes each added row at once (autocommit)
SeedAdd_autocommit ==
    /\ initPc = "add"
    /\ Len(pending) < Len(SAMPLE_MOVIES)
    /\ \/ /\ pending' = Append(pending, SAMPLE_MOVIES[Len(pending) + 1])
          /\ movies' = Add(movies, SAMPLE_MOVIES[Len(pending) + 1])
          /\ InitStep("add")
       \/ /\ UNCHANGED <<pending, movies>>
          /\ InitStep("rollback")
    /\ UNCHANGED <<tableExists, initSession, exitStatus>>

\* one turn of the loop: Movie(**movie_data) and session.add(movie)
SeedAdd ==
    /\ initPc = "add"
    /\ Len(pending) < Len(SAMPLE_MOVIES)
    /\ \/ /\ pending' = Append(pending, SAMPLE_MOVIES[Len(pending) + 1])
          /\ InitStep("add")
       \/ /\ UNCHANGED pending
          /\ InitStep("rollback")
    /\ UNCHANGED <<movies, tableExists, initSession, exitStatus>>

\* session.commit(): the pending rows are written together, or none is
SeedCommit ==
    /\ initPc = "add"
    /\ Len(pending) = Len(SAMPLE_MOVIES)
    /\ \/ /\ movies' = AddAll(movies, pending)
          /\ pending' = <<>>
          /\ InitStep("finally")
       \/ /\ UNCHANGED <<movies, pending>>
          /\ InitStep("rollback")
    /\ UNCHANGED <<tableExists, initSession, exitStatus>>

\* except Exception: session.rollback(), then raise
SeedRollback ==
    /\ initPc = "rollback"
    /\ pending' = <<>>
    /\ InitStep("finally_raised")
    /\ UNCHANGED <<movies, tableExists, initSession, exitStatus>>

\* finally: database_session.close()
InitClose ==
    /\ initPc \in {"finally", "finally_raised"}
    /\ initSession' = "closed"
    /\ InitStep(IF initPc = "finally" THEN "return" ELSE "except")
    /\ UNCHANGED <<movies, tableExists, pending, exitStatus>>

\* the end of the script: sys.exit(1) in "except Exception", else status 0
InitExit ==
    /\ initPc \in {"return", "except"}
    /\ exitStatus' = {IF initPc = "except" THEN 1 ELSE 0}
    /\ InitStep("done")
    /\ UNCHANGED <<movies, tableExists, pending, initSession>>

NextSeedFailure ==
    \/ InitCreateTables
    \/ SeedCount
    \/ SeedAdd
    \/ SeedCommit
    \/ SeedRollback
    \/ InitClose
    \/ InitExit

SpecSeedFailure ==
    Init /\ [][NextSeedFailure]_vars

-----------------------------------------------------------------------------
(* C26: seeding an empty store is all-or-nothing                            *)

\* C26: whichever statement of seed_database fails, the store only ever
\* changes from empty to the 24 sample rows, in one step; once seed_database
\* has raised, its rows are rolled back, init_database closes the session
\* and the script ends with status 1, the store being as it was
C26_SeedAllOrNothing ==
    /\ [][movies' # movies =>
             /\ movies = <<>>
             /\ movies' = AddAll(<<>>, SAMPLE_MOVIES)
             /\ Len(movies') = SampleCount]_vars
    /\ [][initPc = "rollback" => pending' = <<>> /\ initPc' = "finally_raised"]_vars
    /\ [][initPc = "finally_raised" => initSession' = "closed" /\ initPc' = "except"]_vars
    /\ [][initPc = "except" => exitStatus' = {1} /\ initSession' # "open"]_vars
    /\ [][(initPc \in {"rollback", "finally_raised", "except"}) => movies' = movies]_vars
    /\ [](exitStatus = {1} => initSession # "open" /\ pending = <<>>)

\* the commit of the 24 pending rows failed on an empty store: the run ended
\* with status 1, the session closed and the store still empty
C26_Witness ==
    /\ initPc = "done"
    /\ exitStatus = {1}
    /\ initSession = "closed"
    /\ movies = <<>>
    /\ pending = <<>>

-----------------------------------------------------------------------------
(* C23, C28: the filters of the home page                                    *)

\* a run of show_home_page has ended
HomeDone ==
    view.fn = "show_home_page" /\ view.outcome # "running"

\* a trigger of line 60 of home.py holds
Triggered(in) ==
    \/ in.apply_filters
    \/ in.search_term # <<>>
    \/ in.selected_genre # "All Genres"
    \/ in.min_rating > 0

\* the movie satisfies the title, genre and rating inputs that are set
SatisfiesOthers(m, in) ==
    /\ in.search_term # <<>> => Contains(Lower(m.title), Lower(in.search_term))
    /\ in.selected_genre # "All Genres" => m.genre = {in.selected_genre}
    /\ in.min_rating > 0 => \E r \in m.rating : r >= in.min_rating

\* the movie's year is within the bounds, both included
WithinYears(m, in) ==
    \E y \in m.year : in.start_year <= y /\ y <= in.end_year

\* C23 as stated: the displayed movies are exactly the movies of the full
\* list that satisfy every input the user has set, the year bounds counting
\* as set when they differ from the defaults of the widgets
C23_Original ==
    HomeDone =>
       view.displayed =
          SelectSeq(view.list, LAMBDA m :
             /\ SatisfiesOthers(m, view.input)
             /\ (view.input.start_year # DefaultStartYear
                   \/ view.input.end_year # DefaultEndYear) => WithinYears(m, view.input))

\* C23, amended: when Apply Filters is pressed or a term, a genre or a
\* minimum rating above 0 is set, the displayed movies are exactly the movies
\* of the full list that satisfy all of the set title, genre and rating
\* inputs and, when start_year <= end_year, have a year within the bounds
\* (the default bounds too); otherwise the full list is displayed
C23_Conjunctive ==
    HomeDone =>
       view.displayed =
          (IF Triggered(view.input)
           THEN SelectSeq(view.list, LAMBDA m :
                   /\ SatisfiesOthers(m, view.input)
                   /\ view.input.start_year <= view.input.end_year
                         => WithinYears(m, view.input))
           ELSE view.list)

\* a term, a genre, year bounds and a minimum rating were set together and
\* some movies, not all, are displayed
C23_Witness ==
    /\ HomeDone
    /\ view.input.search_term # <<>>
    /\ view.input.selected_genre = "Action"
    /\ view.input.min_rating > 0
    /\ view.input.end_year = 2008
    /\ view.displayed # <<>>
    /\ Len(view.displayed) < Len(view.list)

\* C28: with start_year > end_year the year filter is skipped without an
\* error, so the movies the other inputs leave are displayed whatever their
\* year; with no trigger (Apply Filters not pressed, no term, no genre, no
\* minimum rating above 0) the full list is displayed whatever the bounds
C28_YearBounds ==
    HomeDone =>
       /\ (Triggered(view.input) /\ view.input.start_year > view.input.end_year) =>
             /\ view.displayed =
                   SelectSeq(view.list, LAMBDA m : SatisfiesOthers(m, view.input))
             /\ "error" \notin view.messages
       /\ ~Triggered(view.input) => view.displayed = view.list

\* Apply Filters was pressed with start_year > end_year and the whole list,
\* with its movies of several years, is displayed
C28_Witness ==
    /\ HomeDone
    /\ view.input.apply_filters
    /\ view.input.start_year > view.input.end_year
    /\ view.displayed = view.list
    /\ \E i, j \in DOMAIN view.displayed :
         view.displayed[i].year # view.displayed[j].year

-----------------------------------------------------------------------------
(* C25: the statistics of the home page                                      *)

-----------------------------------------------------------------------------
(* C29: the similar movies of the details page                               *)

-----------------------------------------------------------------------------
(* C21, C22, C27: the application as a whole                                 *)

\* C21: the client offers a liveness probe that returns a boolean, evaluated
\* anew by every run of main: a run of main gets an answer from the probe and
\* shows exactly one of the two connection statuses
C21_Probe ==
    (view.fn = "main") =>
       /\ view.exception # "AttributeError"
       /\ ("connected" \in view.messages) # ("disconnected" \in view.messages)

\* C22: no run of main or of a page ends in an uncaught exception, and a page
\* that completes on an empty list shows no data and a message
C22_NoCrash ==
    /\ view.outcome # "raised"
    /\ (/\ view.fn \in {"show_home_page", "show_movie_details"}
        /\ view.outcome = "completed"
        /\ view.list = <<>>) =>
          /\ view.displayed = <<>>
          /\ view.messages # {}

\* C27: the stored page is one of the three pages, 'home' at first; a run of
\* main in which a button is clicked stores the page of that button and
\* reruns, and any other run of main renders the stored page
C27_Navigation ==
    /\ sessionPage \subseteq Pages
    /\ (view.fn = "main" /\ view.outcome = "rerun") => (sessionPage = {view.input.click})
    /\ (view.fn = "main" /\ view.outcome # "rerun") =>
          /\ view.rendered \in Pages
          /\ sessionPage = {view.rendered}

====
